---- MODULE Spec2Model ----
(***************************************************************************)
(* Model of the anomaly-detection engine (app/agents/anomaly_detector.py)  *)
(* and of the LLM manager it consults (app/llm/manager.py).                *)
(*                                                                         *)
(* Python strings are sequences of one-character strings.  Python values   *)
(* held in a record field are tagged records [k, s, n]: k is the Python    *)
(* type ("absent" when the key is not in the dict), s the characters of a  *)
(* str, n the number of an int/bool, or the number of tenths of a float.   *)
(***************************************************************************)
EXTENDS Integers, Sequences, FiniteSets, TLC

VARIABLES
  fn,               \* which function the function-level runs call
  returned,         \* whether that call has returned (or raised)
  entry,            \* _extract_features: the log entry being converted
  feature_vector,   \* _extract_features: its vector, or the exception
  score,            \* _calculate_severity: the score (hundredths)
  severity,         \* _calculate_severity: the returned level
  response,         \* the raw text of the oracle's response
  parsed,           \* _parse_llm_response: the returned anomalies
  clock,            \* the value datetime.utcnow() returns
  config,           \* self.config of the agent (the dict given to __init__)
  data,             \* analyze: the batch
  pc,               \* analyze: the statement to run next; __init__: how it ended
  llm_manager,      \* analyze: the local LLMManager
  fitted,           \* analyze: whether the outlier model was fitted
  statistical_anomalies,
  pattern_anomalies,
  semantic_anomalies,
  all_anomalies,
  summary,
  recommendations,
  result,           \* analyze: the AnalysisResult returned
  oracle_calls,     \* the generate_response calls made, with their outcome
  anomaly_scores,   \* _detect_statistical_anomalies: decision_function(X)
  time_groups,      \* _analyze_frequency_patterns: interval -> count
  frequency_anomalies,  \* _detect_pattern_anomalies: the frequency summary
  invocations,      \* two analyze calls on one agent: the locals of each
  manager,          \* an LLMManager: providers and default_provider
  first_added,      \* the name given to the first add_provider that returned
  last_call,        \* the last call made on that manager, and how it ended
  db,               \* the rows of analysis_jobs, data_sources and anomalies
  task,             \* run_analysis_job: its module, position and locals
  api               \* APIConnector._fetch_all_data: config, locals, requests

fnVars == <<fn, returned, entry, feature_vector, score, severity, response,
            parsed>>

analyzeVars == <<config, data, pc, llm_manager, fitted, statistical_anomalies,
                 pattern_anomalies, semantic_anomalies, all_anomalies,
                 summary, recommendations, result, oracle_calls,
                 anomaly_scores, time_groups, frequency_anomalies>>

\* the state of the agent: the function-level runs, the clock, analyze
detectorVars == <<fnVars, clock, analyzeVars>>

\* the state of the other components
extVars == <<invocations, manager, first_added, last_call, db, task, api>>

vars == <<fn, returned, entry, feature_vector, score, severity, response,
          parsed, clock, config, data, pc, llm_manager, fitted,
          statistical_anomalies, pattern_anomalies, semantic_anomalies,
          all_anomalies, summary, recommendations, result, oracle_calls,
          anomaly_scores, time_groups, frequency_anomalies, invocations,
          manager, first_added, last_call, db, task, api>>

-----------------------------------------------------------------------------
(* Bounds of the model *)

MaxBatch == 11       \* the longest batch handed to analyze
MaxOutliers == 2     \* the most rows the outlier model labels anomalous
MaxAbsScore == 120   \* the largest |score| given to _calculate_severity
MaxArray == 2        \* the longest "anomalies" array in a response
MaxClock == 2        \* the last reading of the clock

-----------------------------------------------------------------------------
(* Python str helpers *)

DecimalChars == <<"0", "1", "2", "3", "4", "5", "6", "7", "8", "9">>

\* characters c with c.isdigit() but for which int(c) raises: superscript
\* two, written by its code point
SuperscriptDigits == {"U+00B2"}

Range(f) == {f[i] : i \in DOMAIN f}

IsDecimalChar(c) == c \in Range(DecimalChars)

DigitVal(c) == (CHOOSE i \in 1..10 : DecimalChars[i] = c) - 1

\* str.isdigit(): non-empty and every character is a digit
StrIsDigit(s) ==
  /\ Len(s) > 0
  /\ \A i \in 1..Len(s) : IsDecimalChar(s[i]) \/ s[i] \in SuperscriptDigits

RECURSIVE DecimalValue(_)
DecimalValue(s) ==
  IF Len(s) = 0 THEN 0
  ELSE 10 * DecimalValue(SubSeq(s, 1, Len(s) - 1)) + DigitVal(s[Len(s)])

RECURSIVE NatToChars(_)
NatToChars(n) ==
  IF n < 10 THEN <<DecimalChars[n + 1]>>
  ELSE NatToChars(n \div 10) \o <<DecimalChars[(n % 10) + 1]>>

IntToChars(n) == IF n < 0 THEN <<"-">> \o NatToChars(-n) ELSE NatToChars(n)

LowerAlphabet ==
  <<"a", "b", "c", "d", "e", "f", "g", "h", "i", "j", "k", "l", "m",
    "n", "o", "p", "q", "r", "s", "t", "u", "v", "w", "x", "y", "z">>

UpperAlphabet ==
  <<"A", "B", "C", "D", "E", "F", "G", "H", "I", "J", "K", "L", "M",
    "N", "O", "P", "Q", "R", "S", "T", "U", "V", "W", "X", "Y", "Z">>

UpperChar(c) ==
  IF c \in Range(LowerAlphabet)
  THEN UpperAlphabet[CHOOSE i \in 1..26 : LowerAlphabet[i] = c]
  ELSE c

\* str.upper()
StrUpper(s) == [i \in 1..Len(s) |-> UpperChar(s[i])]

MatchAt(s, pat, i) ==
  /\ i + Len(pat) - 1 <= Len(s)
  /\ \A j \in 1..Len(pat) : s[i + j - 1] = pat[j]

\* pat in s
StrContains(s, pat) == \E i \in 1..(Len(s) + 1) : MatchAt(s, pat, i)

\* s.count(pat): non-overlapping occurrences, scanning from the left
RECURSIVE CountFrom(_, _, _)
CountFrom(s, pat, i) ==
  IF i + Len(pat) - 1 > Len(s) THEN 0
  ELSE IF MatchAt(s, pat, i) THEN 1 + CountFrom(s, pat, i + Len(pat))
  ELSE CountFrom(s, pat, i + 1)

StrCount(s, pat) == CountFrom(s, pat, 1)

\* s.replace(old, new) for a one-character old
RECURSIVE StrReplaceChar(_, _, _)
StrReplaceChar(s, old, new) ==
  IF Len(s) = 0 THEN <<>>
  ELSE (IF Head(s) = old THEN new ELSE <<Head(s)>>)
         \o StrReplaceChar(Tail(s), old, new)

-----------------------------------------------------------------------------
(* Python values *)

Absent == [k |-> "absent", s |-> <<>>, n |-> 0]
PyNone == [k |-> "none", s |-> <<>>, n |-> 0]
PyStr(chars) == [k |-> "str", s |-> chars, n |-> 0]
PyInt(i) == [k |-> "int", s |-> <<>>, n |-> i]
PyFloat(tenths) == [k |-> "float", s |-> <<>>, n |-> tenths]
PyBool(b) == [k |-> "bool", s |-> <<>>, n |-> IF b THEN 1 ELSE 0]

\* str(v)
PyStrOf(v) ==
  CASE v.k = "str" -> v.s
    [] v.k = "int" -> IntToChars(v.n)
    [] v.k = "float" ->
         (IF v.n < 0 THEN <<"-">> ELSE <<>>)
           \o NatToChars((IF v.n < 0 THEN -v.n ELSE v.n) \div 10)
           \o <<".">>
           \o NatToChars((IF v.n < 0 THEN -v.n ELSE v.n) % 10)
    [] v.k = "bool" -> IF v.n = 1 THEN <<"T", "r", "u", "e">>
                       ELSE <<"F", "a", "l", "s", "e">>
    [] v.k = "none" -> <<"N", "o", "n", "e">>

\* bool(v): Python truthiness
Truthy(v) ==
  CASE v.k = "str" -> Len(v.s) > 0
    [] v.k = "int" -> v.n # 0
    [] v.k = "float" -> v.n # 0
    [] v.k = "bool" -> v.n = 1
    [] v.k = "none" -> FALSE

\* the outcome of a call that may raise: ok = FALSE stands for the exception
Returned(x) == [ok |-> TRUE, v |-> x]
RaisedInt == [ok |-> FALSE, v |-> 0]

\* int(v): ValueError / TypeError is RaisedInt
PyIntOf(v) ==
  CASE v.k = "int" -> Returned(v.n)
    [] v.k = "bool" -> Returned(v.n)
    [] v.k = "float" ->
         Returned(IF v.n < 0 THEN -((-v.n) \div 10) ELSE v.n \div 10)
    [] v.k = "none" -> RaisedInt
    [] v.k = "str" ->
         IF Len(v.s) > 0 /\ \A i \in 1..Len(v.s) : IsDecimalChar(v.s[i])
         THEN Returned(DecimalValue(v.s))
         ELSE IF /\ Len(v.s) > 1
                 /\ v.s[1] \in {"-", "+"}
                 /\ \A i \in 2..Len(v.s) : IsDecimalChar(v.s[i])
         THEN Returned((IF v.s[1] = "-" THEN -1 ELSE 1)
                         * DecimalValue(Tail(v.s)))
         ELSE RaisedInt

\* digits [. digit] as tenths
UnsignedTenths(s) ==
  IF Len(s) > 0 /\ \A i \in 1..Len(s) : IsDecimalChar(s[i])
  THEN Returned(10 * DecimalValue(s))
  ELSE IF /\ Len(s) > 2
          /\ s[Len(s) - 1] = "."
          /\ \A i \in (1..Len(s)) \ {Len(s) - 1} : IsDecimalChar(s[i])
  THEN Returned(10 * DecimalValue(SubSeq(s, 1, Len(s) - 2))
                  + DigitVal(s[Len(s)]))
  ELSE RaisedInt

\* float(v) in tenths: ValueError / TypeError is RaisedInt
PyFloatOf(v) ==
  CASE v.k = "int" -> Returned(10 * v.n)
    [] v.k = "bool" -> Returned(10 * v.n)
    [] v.k = "float" -> Returned(v.n)
    [] v.k = "none" -> RaisedInt
    [] v.k = "str" ->
         IF Len(v.s) > 1 /\ v.s[1] = "-"
         THEN [ok |-> UnsignedTenths(Tail(v.s)).ok,
               v |-> -UnsignedTenths(Tail(v.s)).v]
         ELSE UnsignedTenths(v.s)

-----------------------------------------------------------------------------
(* datetime *)

NoDate ==
  [ok |-> FALSE, year |-> 0, month |-> 0, day |-> 0, hour |-> 0, minute |-> 0,
   aware |-> FALSE, offset |-> 0]

AllDecimal(s) == \A i \in 1..Len(s) : IsDecimalChar(s[i])

IsLeap(y) == (y % 4 = 0 /\ y % 100 # 0) \/ y % 400 = 0

DaysInMonth(y, m) ==
  IF m = 2 THEN (IF IsLeap(y) THEN 29 ELSE 28)
  ELSE IF m \in {4, 6, 9, 11} THEN 30 ELSE 31

\* [+-]HH:MM
IsUtcOffset(s) ==
  /\ Len(s) = 6
  /\ s[1] \in {"+", "-"}
  /\ s[4] = ":"
  /\ AllDecimal(SubSeq(s, 2, 3)) /\ AllDecimal(SubSeq(s, 5, 6))
  /\ DecimalValue(SubSeq(s, 2, 3)) < 24
  /\ DecimalValue(SubSeq(s, 5, 6)) < 60

\* the minutes east of UTC of [+-]HH:MM
OffsetMinutes(s) ==
  (IF s[1] = "-" THEN -1 ELSE 1)
    * (60 * DecimalValue(SubSeq(s, 2, 3)) + DecimalValue(SubSeq(s, 5, 6)))

\* HH:MM or HH:MM:SS
IsTimePart(s) ==
  /\ Len(s) \in {5, 8}
  /\ s[3] = ":"
  /\ AllDecimal(SubSeq(s, 1, 2)) /\ AllDecimal(SubSeq(s, 4, 5))
  /\ DecimalValue(SubSeq(s, 1, 2)) < 24
  /\ DecimalValue(SubSeq(s, 4, 5)) < 60
  /\ Len(s) = 8 =>
       /\ s[6] = ":"
       /\ AllDecimal(SubSeq(s, 7, 8))
       /\ DecimalValue(SubSeq(s, 7, 8)) < 60

IsDatePart(s) ==
  /\ Len(s) = 10
  /\ s[5] = "-" /\ s[8] = "-"
  /\ AllDecimal(SubSeq(s, 1, 4))
  /\ AllDecimal(SubSeq(s, 6, 7))
  /\ AllDecimal(SubSeq(s, 9, 10))
  /\ DecimalValue(SubSeq(s, 1, 4)) >= 1
  /\ DecimalValue(SubSeq(s, 6, 7)) \in 1..12
  /\ DecimalValue(SubSeq(s, 9, 10)) \in
       1..DaysInMonth(DecimalValue(SubSeq(s, 1, 4)),
                      DecimalValue(SubSeq(s, 6, 7)))

\* the part after the date: separator, time, optional UTC offset
IsTimeTail(s) ==
  \/ Len(s) = 0
  \/ /\ Len(s) \in {6, 9}
     /\ IsTimePart(Tail(s))
  \/ /\ Len(s) \in {12, 15}
     /\ IsTimePart(SubSeq(s, 2, Len(s) - 6))
     /\ IsUtcOffset(SubSeq(s, Len(s) - 5, Len(s)))

\* datetime.fromisoformat(s): ok = FALSE stands for ValueError
FromIsoFormat(s) ==
  IF /\ Len(s) >= 10
     /\ IsDatePart(SubSeq(s, 1, 10))
     /\ IsTimeTail(SubSeq(s, 11, Len(s)))
  THEN [ok |-> TRUE,
        year |-> DecimalValue(SubSeq(s, 1, 4)),
        month |-> DecimalValue(SubSeq(s, 6, 7)),
        day |-> DecimalValue(SubSeq(s, 9, 10)),
        hour |-> IF Len(s) > 10 THEN DecimalValue(SubSeq(s, 12, 13)) ELSE 0,
        minute |-> IF Len(s) > 10 THEN DecimalValue(SubSeq(s, 15, 16)) ELSE 0,
        aware |-> Len(s) \in {22, 25},
        offset |-> IF Len(s) \in {22, 25}
                   THEN OffsetMinutes(SubSeq(s, Len(s) - 5, Len(s)))
                   ELSE 0]
  ELSE NoDate

MonthOffsets == <<0, 3, 2, 5, 0, 3, 5, 1, 4, 6, 2, 4>>

\* datetime.weekday(): Monday is 0
Weekday(ts) ==
  LET y == IF ts.month < 3 THEN ts.year - 1 ELSE ts.year
      sunday0 == (y + (y \div 4) - (y \div 100) + (y \div 400)
                    + MonthOffsets[ts.month] + ts.day) % 7
  IN (sunday0 + 6) % 7

\* datetime.fromisoformat(entry["timestamp"].replace("Z", "+00:00")); a value
\* that is not a str has no replace(), which raises like a bad format does
ParseTimestamp(v) ==
  IF v.k = "str"
  THEN FromIsoFormat(StrReplaceChar(v.s, "Z", <<"+", "0", "0", ":", "0", "0">>))
  ELSE NoDate

-----------------------------------------------------------------------------
(* Feature extraction *)

Str_ERROR == <<"E", "R", "R", "O", "R">>
Str_WARN == <<"W", "A", "R", "N">>
Str_FATAL == <<"F", "A", "T", "A", "L">>
Str_EXCEPTION == <<"E", "X", "C", "E", "P", "T", "I", "O", "N">>
Str_FAILED == <<"F", "A", "I", "L", "E", "D">>

\* entry.get(field, "")
GetOrEmpty(e, field) == IF e[field].k = "absent" THEN PyStr(<<>>) ELSE e[field]

\* str(entry.get("message", "")) + str(entry.get("request", ""))
TextContent(e) ==
  PyStrOf(GetOrEmpty(e, "message")) \o PyStrOf(GetOrEmpty(e, "request"))

\* the four timestamp-based features of one entry
TimestampFeatures(e) ==
  IF e.timestamp.k # "absent"
  THEN LET ts == ParseTimestamp(e.timestamp)
       IN IF ts.ok THEN <<ts.hour, Weekday(ts), ts.day, ts.month>>
          ELSE <<0, 0, 0, 0>>
  ELSE <<0, 0, 0, 0>>

\* the three status code features of one entry; int() is not guarded
StatusFeatures(e) ==
  IF e.status.k # "absent"
  THEN LET status == IF StrIsDigit(PyStrOf(e.status))
                     THEN PyIntOf(e.status)
                     ELSE Returned(0)
       IN [ok |-> status.ok,
           v |-> <<status.v,
                   IF 400 <= status.v /\ status.v < 500 THEN 1 ELSE 0,
                   IF 500 <= status.v /\ status.v < 600 THEN 1 ELSE 0>>]
  ELSE Returned(<<0, 0, 0>>)

\* the response time feature of one entry, in tenths
ResponseTimeFeatures(e) ==
  IF e.response_time.k # "absent"
  THEN LET response_time == PyFloatOf(e.response_time)
       IN IF response_time.ok THEN <<response_time.v>> ELSE <<0>>
  ELSE <<0>>

\* the four text features of one entry
TextFeatures(e) ==
  LET text_content == TextContent(e)
  IN <<Len(text_content),
       StrCount(text_content, Str_ERROR),
       StrCount(text_content, Str_WARN),
       StrCount(text_content, Str_FATAL)>>

\* the body of the loop of _extract_features: the feature vector of one
\* entry, or the exception that leaves the loop
ExtractEntry(e) ==
  LET status_features == StatusFeatures(e)
  IN IF status_features.ok
     THEN Returned(TimestampFeatures(e) \o status_features.v
                     \o ResponseTimeFeatures(e) \o TextFeatures(e))
     ELSE [ok |-> FALSE, v |-> <<>>]

\* _extract_features(data): one vector per entry, or the first exception
_extract_features(d) ==
  LET vectors == [i \in 1..Len(d) |-> ExtractEntry(d[i])]
  IN IF \A i \in 1..Len(d) : vectors[i].ok
     THEN Returned([i \in 1..Len(d) |-> vectors[i].v])
     ELSE [ok |-> FALSE, v |-> <<>>]

\* _calculate_severity without abs(): the sign of the score counts
SignedSeverity(sc) ==
  IF sc > 50 THEN "critical"
  ELSE IF sc > 30 THEN "high"
  ELSE IF sc > 10 THEN "medium"
  ELSE "low"

\* _calculate_severity(score), score in hundredths
_calculate_severity(sc) ==
  LET abs_score == IF sc < 0 THEN -sc ELSE sc
  IN IF abs_score > 50 THEN "critical"
     ELSE IF abs_score > 30 THEN "high"
     ELSE IF abs_score > 10 THEN "medium"
     ELSE "low"

-----------------------------------------------------------------------------
(* JSON: the text of an oracle response is a sequence of tokens; a parsed  *)
(* JSON value is a tagged record [t, s, n, keys, items]; numbers are in    *)
(* hundredths                                                              *)

Punct(c) == [t |-> "punct", s |-> c, n |-> 0]
StrTok(x) == [t |-> "str", s |-> x, n |-> 0]
NumTok(x) == [t |-> "num", s |-> "", n |-> x]
NullTok == [t |-> "null", s |-> "", n |-> 0]
\* a word of prose: no brace in it, and not JSON
WordTok == [t |-> "word", s |-> "text", n |-> 0]

JNull == [t |-> "null", s |-> "", n |-> 0, keys |-> <<>>, items |-> <<>>]
JNum(x) == [t |-> "num", s |-> "", n |-> x, keys |-> <<>>, items |-> <<>>]
JStr(x) == [t |-> "str", s |-> x, n |-> 0, keys |-> <<>>, items |-> <<>>]
JList(xs) == [t |-> "list", s |-> "", n |-> 0, keys |-> <<>>, items |-> xs]
JDict(ks, xs) == [t |-> "dict", s |-> "", n |-> 0, keys |-> ks, items |-> xs]

\* key in d
DictHas(d, key) == \E i \in 1..Len(d.keys) : d.keys[i] = key

\* d[key]: the last member of that name wins
DictItem(d, key) ==
  d.items[CHOOSE i \in 1..Len(d.keys) :
            /\ d.keys[i] = key
            /\ \A j \in (i + 1)..Len(d.keys) : d.keys[j] # key]

\* d.get(key, default)
DictGet(d, key, default) == IF DictHas(d, key) THEN DictItem(d, key) ELSE default

\* str.find(c) and str.rfind(c): 0-based, -1 when absent
StrFind(r, c) ==
  IF \E i \in 1..Len(r) : r[i] = Punct(c)
  THEN (CHOOSE i \in 1..Len(r) :
          r[i] = Punct(c) /\ \A j \in 1..(i - 1) : r[j] # Punct(c)) - 1
  ELSE -1


\* a search that stops at the first occurrence
StrRFindFirst(r, c) ==
  IF \E i \in 1..Len(r) : r[i] = Punct(c)
  THEN (CHOOSE i \in 1..Len(r) :
          r[i] = Punct(c) /\ \A j \in 1..(i - 1) : r[j] # Punct(c)) - 1
  ELSE -1

StrRFind(r, c) ==
  IF \E i \in 1..Len(r) : r[i] = Punct(c)
  THEN (CHOOSE i \in 1..Len(r) :
          r[i] = Punct(c) /\ \A j \in (i + 1)..Len(r) : r[j] # Punct(c)) - 1
  ELSE -1

\* r[a:b] for 0 <= a
Slice(r, a, b) == SubSeq(r, a + 1, IF b > Len(r) THEN Len(r) ELSE b)

ParseFail == [ok |-> FALSE, val |-> JNull, next |-> 0]
Parsed(x, nxt) == [ok |-> TRUE, val |-> x, next |-> nxt]

IsPunctAt(r, i, c) == i <= Len(r) /\ r[i] = Punct(c)

RECURSIVE ParseValue(_, _)
RECURSIVE ParseMembers(_, _, _, _)
RECURSIVE ParseElements(_, _, _)

\* the members of an object from token i on, after "{" or ","
ParseMembers(r, i, ks, xs) ==
  IF i <= Len(r) /\ r[i].t = "str" /\ IsPunctAt(r, i + 1, ":")
  THEN LET m == ParseValue(r, i + 2)
       IN IF ~m.ok THEN ParseFail
          ELSE IF IsPunctAt(r, m.next, ",")
          THEN ParseMembers(r, m.next + 1,
                            Append(ks, r[i].s), Append(xs, m.val))
          ELSE IF IsPunctAt(r, m.next, "}")
          THEN Parsed(JDict(Append(ks, r[i].s), Append(xs, m.val)),
                      m.next + 1)
          ELSE ParseFail
  ELSE ParseFail

\* the elements of an array from token i on, after "[" or ","
ParseElements(r, i, xs) ==
  LET m == ParseValue(r, i)
  IN IF ~m.ok THEN ParseFail
     ELSE IF IsPunctAt(r, m.next, ",")
     THEN ParseElements(r, m.next + 1, Append(xs, m.val))
     ELSE IF IsPunctAt(r, m.next, "]")
     THEN Parsed(JList(Append(xs, m.val)), m.next + 1)
     ELSE ParseFail

\* one JSON value from token i on
ParseValue(r, i) ==
  IF i > Len(r) THEN ParseFail
  ELSE IF r[i].t = "str" THEN Parsed(JStr(r[i].s), i + 1)
  ELSE IF r[i].t = "num" THEN Parsed(JNum(r[i].n), i + 1)
  ELSE IF r[i].t = "null" THEN Parsed(JNull, i + 1)
  ELSE IF r[i] = Punct("{")
  THEN (IF IsPunctAt(r, i + 1, "}") THEN Parsed(JDict(<<>>, <<>>), i + 2)
        ELSE ParseMembers(r, i + 1, <<>>, <<>>))
  ELSE IF r[i] = Punct("[")
  THEN (IF IsPunctAt(r, i + 1, "]") THEN Parsed(JList(<<>>), i + 2)
        ELSE ParseElements(r, i + 1, <<>>))
  ELSE ParseFail

\* json.loads(text): ok = FALSE stands for JSONDecodeError
JsonLoads(r) ==
  LET m == ParseValue(r, 1)
  IN IF m.ok /\ m.next = Len(r) + 1 THEN [ok |-> TRUE, val |-> m.val]
     ELSE [ok |-> FALSE, val |-> JNull]

RECURSIVE DumpTokens(_)
RECURSIVE DumpMembers(_, _)
RECURSIVE DumpElements(_, _)

DumpMembers(d, i) ==
  IF i > Len(d.keys) THEN <<>>
  ELSE (IF i > 1 THEN <<Punct(",")>> ELSE <<>>)
         \o <<StrTok(d.keys[i]), Punct(":")>> \o DumpTokens(d.items[i])
         \o DumpMembers(d, i + 1)

DumpElements(l, i) ==
  IF i > Len(l.items) THEN <<>>
  ELSE (IF i > 1 THEN <<Punct(",")>> ELSE <<>>)
         \o DumpTokens(l.items[i]) \o DumpElements(l, i + 1)

\* json.dumps(value)
DumpTokens(x) ==
  IF x.t = "str" THEN <<StrTok(x.s)>>
  ELSE IF x.t = "num" THEN <<NumTok(x.n)>>
  ELSE IF x.t = "null" THEN <<NullTok>>
  ELSE IF x.t = "dict"
  THEN <<Punct("{")>> \o DumpMembers(x, 1) \o <<Punct("}")>>
  ELSE <<Punct("[")>> \o DumpElements(x, 1) \o <<Punct("]")>>

-----------------------------------------------------------------------------
(* Anomaly objects and the response parser *)

\* a str the engine produces: a literal, a format string with the numbers
\* formatted into it, or ("{content}") the text of an oracle response
Text(x) == [fmt |-> x, args |-> <<>>, content |-> <<>>]
Format(x, numbers) == [fmt |-> x, args |-> numbers, content |-> <<>>]
Content(tokens) == [fmt |-> "{content}", args |-> <<>>, content |-> tokens]

\* Anomaly(...): confidence in hundredths, detected_at a reading of the clock
Anomaly(sev, cat, desc, conf, dat, at) ==
  [severity |-> sev, category |-> cat, description |-> desc,
   confidence |-> conf, data |-> dat, detected_at |-> at]

\* JSON strings that the float field accepts, with their value in hundredths
NumericText(x) == IF x = "0.9" THEN 90 ELSE -1

\* the field validation of the Anomaly model: str fields take a str, the
\* float field a number or numeric text, the Dict field a dict
ValidStrField(x) == x.t = "str"
ValidFloatField(x) == x.t = "num" \/ (x.t = "str" /\ NumericText(x.s) >= 0)
ValidDictField(x) == x.t = "dict"

FloatFieldValue(x) == IF x.t = "num" THEN x.n ELSE NumericText(x.s)


\* the values with "low" as the default severity
AnomalyArgsDefaultLow(anomaly_data) ==
  [severity |-> DictGet(anomaly_data, "severity", JStr("low")),
   category |-> DictGet(anomaly_data, "category", JStr("llm_detected")),
   description |->
     DictGet(anomaly_data, "description", JStr("LLM detected anomaly")),
   confidence |-> DictGet(anomaly_data, "confidence", JNum(50)),
   data |-> DictGet(anomaly_data, "data", JDict(<<>>, <<>>))]

\* the values handed to Anomaly(...) for one element of the array
AnomalyArgs(anomaly_data) ==
  [severity |-> DictGet(anomaly_data, "severity", JStr("medium")),
   category |-> DictGet(anomaly_data, "category", JStr("llm_detected")),
   description |->
     DictGet(anomaly_data, "description", JStr("LLM detected anomaly")),
   confidence |-> DictGet(anomaly_data, "confidence", JNum(50)),
   data |-> DictGet(anomaly_data, "data", JDict(<<>>, <<>>))]

\* the element has .get() and its values pass the validation of Anomaly
Convertible(anomaly_data) ==
  /\ anomaly_data.t = "dict"
  /\ ValidStrField(AnomalyArgs(anomaly_data).severity)
  /\ ValidStrField(AnomalyArgs(anomaly_data).category)
  /\ ValidStrField(AnomalyArgs(anomaly_data).description)
  /\ ValidFloatField(AnomalyArgs(anomaly_data).confidence)
  /\ ValidDictField(AnomalyArgs(anomaly_data).data)

ToAnomaly(anomaly_data, now) ==
  LET a == AnomalyArgs(anomaly_data)
  IN Anomaly(a.severity.s, a.category.s, Text(a.description.s),
             FloatFieldValue(a.confidence), a.data, now)

\* for anomaly_data in xs: the anomalies appended when the loop ends, by
\* exhaustion or by the first exception
RECURSIVE AppendAnomalies(_, _, _, _)
AppendAnomalies(xs, i, anomalies, now) ==
  IF i > Len(xs) THEN anomalies
  ELSE IF ~Convertible(xs[i]) THEN anomalies
  ELSE AppendAnomalies(xs, i + 1, Append(anomalies, ToAnomaly(xs[i], now)),
                       now)

\* iter(x): a list gives its items, a dict its keys, a str its characters
\* (a non-empty str is given as one str item, its first character); any
\* other value is not iterable
Iterable(x) == x.t \in {"list", "dict", "str"}

IterItems(x) ==
  IF x.t = "list" THEN x.items
  ELSE IF x.t = "dict" THEN [i \in 1..Len(x.keys) |-> JStr(x.keys[i])]
  ELSE IF x.s = "" THEN <<>> ELSE <<JStr(x.s)>>

\* _parse_llm_response(response): every exception is caught and the list
\* built so far is returned
_parse_llm_response(text, now) ==
  LET json_start == StrFind(text, "{")
      json_end == StrRFind(text, "}") + 1
  IN IF json_start # -1 /\ json_end > json_start
     THEN LET loaded == JsonLoads(Slice(text, json_start, json_end))
          IN IF ~loaded.ok THEN <<>>
             ELSE IF DictHas(loaded.val, "anomalies")
             THEN (IF Iterable(DictItem(loaded.val, "anomalies"))
                   THEN AppendAnomalies(
                          IterItems(DictItem(loaded.val, "anomalies")),
                          1, <<>>, now)
                   ELSE <<>>)
             ELSE <<>>
     ELSE <<>>

-----------------------------------------------------------------------------
(* LLMManager (app/llm/manager.py) and the oracle behind it *)

None == "None"

\* a manager on which the configured provider is registered
RegisteredLLMManager == [providers |-> {"openai"}, default_provider |-> "openai"]

\* LLMManager(): no provider, no default
NewLLMManager == [providers |-> {}, default_provider |-> None]

\* the lookup of get_provider
ProviderFound(mgr, name) ==
  LET provider_name == IF name \in {None, ""} THEN mgr.default_provider
                       ELSE name
  IN provider_name \notin {None, ""} /\ provider_name \in mgr.providers


\* add_provider that makes every provider it adds the default
AddProviderAlwaysDefault(mgr, name) ==
  [providers |-> mgr.providers \cup {name}, default_provider |-> name]

\* add_provider(name, ...): the first provider added becomes the default
add_provider(mgr, name) ==
  [providers |-> mgr.providers \cup {name},
   default_provider |-> IF mgr.default_provider = None THEN name
                        ELSE mgr.default_provider]

NlTok == [t |-> "nl", s |-> "", n |-> 0]

\* the bullet character U+2022
Bullet == <<"U+2022">>

\* texts a provider may answer with
OracleReplies ==
  {<<WordTok>>,
   <<WordTok, Punct("{"), StrTok("anomalies"), Punct(":"), Punct("["),
     Punct("{"), StrTok("severity"), Punct(":"), StrTok("severe"),
     Punct("}"), Punct("]"), Punct("}")>>,
   <<Punct("-"), WordTok, NlTok, Punct("-"), WordTok, WordTok>>,
   <<WordTok, NlTok, Punct("-"), WordTok, NlTok, NlTok, Punct("-")>>,
   <<Punct("U+2022"), WordTok, NlTok, Punct("U+2022"), WordTok, WordTok>>,
   <<Punct("U+00E2"), Punct("U+20AC"), Punct("U+00A2"), WordTok>>,
   <<>>}

OracleFailure == [ok |-> FALSE, content |-> <<>>]


\* generate_response without the lookup of get_provider: some provider
\* always answers or fails
GenerateResponseAnyProvider(mgr, provider_name) ==
  {[ok |-> TRUE, content |-> c] : c \in OracleReplies} \cup {OracleFailure}

\* await llm_manager.generate_response(...): the outcomes.  get_provider
\* raises ValueError for an unknown provider; a provider answers with some
\* text, or fails (provider error, timeout)
generate_response(mgr, provider_name) ==
  IF ProviderFound(mgr, provider_name)
  THEN {[ok |-> TRUE, content |-> c] : c \in OracleReplies}
         \cup {OracleFailure}
  ELSE {OracleFailure}

-----------------------------------------------------------------------------
(* Pattern and frequency analysis *)

\* any(keyword in text_content.upper() for keyword in [...])
HasErrorKeyword(e) ==
  \E keyword \in {Str_ERROR, Str_EXCEPTION, Str_FAILED, Str_FATAL} :
    StrContains(StrUpper(TextContent(e)), keyword)

Ratio(a, b) == [num |-> a, den |-> b]

\* s[:k]
Prefix(s, k) == SubSeq(s, 1, IF Len(s) < k THEN Len(s) ELSE k)

\* _analyze_error_patterns(data): always a dict of three keys
_analyze_error_patterns(d) ==
  LET error_messages ==
        LET F[i \in 0..Len(d)] ==
              IF i = 0 THEN <<>>
              ELSE IF HasErrorKeyword(d[i])
              THEN Append(F[i - 1], Prefix(TextContent(d[i]), 200))
              ELSE F[i - 1]
        IN F[Len(d)]
  IN [error_count |-> Len(error_messages),
      error_rate |-> IF Len(d) > 0 THEN Ratio(Len(error_messages), Len(d))
                     ELSE Ratio(0, 1),
      sample_errors |-> Prefix(error_messages, 10)]

RECURSIVE DaysBeforeMonth(_, _)
DaysBeforeMonth(y, m) ==
  IF m = 1 THEN 0 ELSE DaysBeforeMonth(y, m - 1) + DaysInMonth(y, m - 1)

DaysBeforeYear(y) ==
  365 * (y - 1) + ((y - 1) \div 4) - ((y - 1) \div 100) + ((y - 1) \div 400)

\* ts.replace(minute=(ts.minute // 5) * 5, second=0, microsecond=0) as a
\* dict key: aware datetimes are equal when they are the same instant
Interval(ts) ==
  [aware |-> ts.aware,
   minutes |->
     ((DaysBeforeYear(ts.year) + DaysBeforeMonth(ts.year, ts.month) + ts.day)
        * 24 + ts.hour) * 60 + (ts.minute \div 5) * 5 - ts.offset]


\* time_groups that also counts the entries whose timestamp does not parse,
\* under one key of their own
TimeGroupsCountingAll(d) ==
  LET ts == [i \in 1..Len(d) |-> ParseTimestamp(d[i].timestamp)]
      rows == {i \in 1..Len(d) : d[i].timestamp.k # "absent"}
      interval == [i \in rows |->
                     IF ts[i].ok THEN Interval(ts[i])
                     ELSE [aware |-> FALSE, minutes |-> 0]]
  IN [iv \in Range(interval) |->
        Cardinality({i \in rows : interval[i] = iv})]

\* time_groups: interval -> number of entries with a timestamp that parses
TimeGroups(d) ==
  LET parse == [e \in Range(d) |-> ParseTimestamp(e.timestamp)]
      ts == [i \in 1..Len(d) |-> parse[d[i]]]
      rows == {i \in 1..Len(d) : d[i].timestamp.k # "absent" /\ ts[i].ok}
      interval == [i \in rows |-> Interval(ts[i])]
  IN [iv \in Range(interval) |->
        Cardinality({i \in rows : interval[i] = iv})]

RECURSIVE SumOver(_, _)
SumOver(f, S) ==
  IF S = {} THEN 0
  ELSE LET x == CHOOSE y \in S : TRUE IN f[x] + SumOver(f, S \ {x})

EmptyDict == <<>>

\* bool(d) of a dict
DictTruthy(d) == DOMAIN d # {}

\* _analyze_frequency_patterns(data): {} when no timestamp parses; the
\* mean is sum/len, the standard deviation is kept as the variance
\* (len * sum of squares - sum^2) / len^2
FrequencyStatistics(groups) ==
  LET keys == DOMAIN groups
      total == SumOver(groups, keys)
      squares == SumOver([iv \in keys |-> groups[iv] * groups[iv]],
                         keys)
      len == Cardinality(keys)
  IN IF keys = {} THEN EmptyDict
     ELSE [mean_frequency |-> Ratio(total, len),
           std_frequency |-> Ratio(len * squares - total * total, len * len),
           max_frequency |->
             CHOOSE x \in Range(groups) :
               \A y \in Range(groups) : y <= x,
           min_frequency |->
             CHOOSE x \in Range(groups) :
               \A y \in Range(groups) : x <= y,
           frequency_cv |->
             IF total > 0
             THEN Ratio(len * squares - total * total, total * total)
             ELSE Ratio(0, 1)]

_analyze_frequency_patterns(d) == FrequencyStatistics(TimeGroups(d))

TextFields == <<"message", "request", "error", "description">>

\* field in entry and entry[field]
FieldHasText(e, field) == e[field].k # "absent" /\ Truthy(e[field])

\* " | ".join(text_parts)
RECURSIVE JoinTextParts(_, _)
JoinTextParts(e, i) ==
  IF i > Len(TextFields) THEN <<>>
  ELSE IF FieldHasText(e, TextFields[i])
  THEN (IF \E j \in 1..(i - 1) : FieldHasText(e, TextFields[j])
        THEN <<" ", "|", " ">> ELSE <<>>)
         \o PyStrOf(e[TextFields[i]]) \o JoinTextParts(e, i + 1)
  ELSE JoinTextParts(e, i + 1)

\* _extract_text_samples(data)
_extract_text_samples(d) ==
  LET F[i \in 0..Len(d)] ==
        IF i = 0 THEN <<>>
        ELSE IF \E j \in 1..Len(TextFields) : FieldHasText(d[i], TextFields[j])
        THEN Append(F[i - 1], JoinTextParts(d[i], 1))
        ELSE F[i - 1]
  IN F[Len(d)]

-----------------------------------------------------------------------------
(* Statistical detector and aggregation *)

MinSamples == 10

\* _get_contamination_level(), in hundredths
_get_contamination_level(cfg) ==
  IF cfg.sensitivity = "low" THEN 1
  ELSE IF cfg.sensitivity = "medium" THEN 5
  ELSE IF cfg.sensitivity = "high" THEN 10
  ELSE 5

OutlierScores == {-60, -40, -20, -5}

\* the rows the model lets the library label anomalous: the first row and
\* the last two
OutlierRows(n) == {1, n - 1, n}

\* iso_forest.fit_predict(X) and iso_forest.decision_function(X): the score
\* of every row, in hundredths; predict labels a row -1 exactly when its
\* score is negative.  Which rows score negative is the library's choice
IsolationForest(n, contamination) ==
  UNION {{[i \in 1..n |-> IF i \in S THEN f[i] ELSE 5] :
            f \in [S -> OutlierScores]} :
         S \in {T \in SUBSET OutlierRows(n) : Cardinality(T) <= MaxOutliers}}

Label(sc) == IF sc < 0 THEN -1 ELSE 1

Abs(x) == IF x < 0 THEN -x ELSE x


\* an Anomaly whose row_index counts the rows from 1
StatisticalAnomalyOneBased(features, i, sc, now) ==
  Anomaly(_calculate_severity(sc),
          "statistical_outlier",
          Format("Statistical anomaly detected with score: {score:.3f}",
                 <<sc>>),
          Abs(sc),
          JDict(<<"row_index", "features", "anomaly_score">>,
                <<JNum(i),
                  JList([j \in 1..Len(features[i]) |-> JNum(features[i][j])]),
                  JNum(sc)>>),
          now)

\* the Anomaly built for row i (row_index is 0-based)
StatisticalAnomaly(features, i, sc, now) ==
  Anomaly(_calculate_severity(sc),
          "statistical_outlier",
          Format("Statistical anomaly detected with score: {score:.3f}",
                 <<sc>>),
          Abs(sc),
          JDict(<<"row_index", "features", "anomaly_score">>,
                <<JNum(i - 1),
                  JList([j \in 1..Len(features[i]) |-> JNum(features[i][j])]),
                  JNum(sc)>>),
          now)

\* the loop over zip(anomaly_labels, anomaly_scores)
OutlierAnomalies(features, scores, now) ==
  LET F[i \in 0..Len(scores)] ==
        IF i = 0 THEN <<>>
        ELSE IF Label(scores[i]) = -1
        THEN Append(F[i - 1], StatisticalAnomaly(features, i, scores[i], now))
        ELSE F[i - 1]
  IN F[Len(scores)]

IsCritical(a) == a.severity = "critical"
IsNotCritical(a) == a.severity # "critical"

\* the combination with the critical anomalies moved to the front
CombineCriticalFirst(statistical, pattern, semantic) ==
  SelectSeq(statistical \o pattern \o semantic, IsCritical)
    \o SelectSeq(statistical \o pattern \o semantic, IsNotCritical)

\* statistical_anomalies + pattern_anomalies + semantic_anomalies
CombineAnomalies(statistical, pattern, semantic) ==
  statistical \o pattern \o semantic

SummaryTemplate == "Analysis completed: {n} anomalies detected in {m} log entries."


\* a summary whose template takes the two counts in the other order
SummaryCountsSwapped(d, anomalies, outcome) ==
  IF outcome.ok THEN Content(outcome.content)
  ELSE Format(SummaryTemplate, <<Len(d), Len(anomalies)>>)

\* the value _generate_summary returns for an outcome of the oracle call
_generate_summary(d, anomalies, outcome) ==
  IF outcome.ok THEN Content(outcome.content)
  ELSE Format(SummaryTemplate, <<Len(anomalies), Len(d)>>)

\* content.split('\n')
RECURSIVE SplitLines(_, _)
SplitLines(tokens, line) ==
  IF Len(tokens) = 0 THEN <<line>>
  ELSE IF Head(tokens) = NlTok THEN <<line>> \o SplitLines(Tail(tokens), <<>>)
  ELSE SplitLines(Tail(tokens), Append(line, Head(tokens)))

\* line.strip().startswith(prefix), prefix a sequence of characters
StartsWith(line, prefix) ==
  /\ Len(line) >= Len(prefix)
  /\ \A i \in 1..Len(prefix) : line[i] = Punct(prefix[i])

\* the bullet markers of the source text: "-", and the three characters
\* U+00E2 U+20AC U+00A2 that the source file holds where a bullet was meant
Dash == <<"-">>
BulletMarker == <<"U+00E2", "U+20AC", "U+00A2">>

IsBulletLine(line) ==
  Len(line) > 0 /\ (StartsWith(line, Dash) \/ StartsWith(line, BulletMarker))

\* the lines kept, each without its first character
BulletLines(lines) ==
  LET F[i \in 0..Len(lines)] ==
        IF i = 0 THEN <<>>
        ELSE IF IsBulletLine(lines[i])
        THEN Append(F[i - 1], Content(Tail(lines[i])))
        ELSE F[i - 1]
  IN F[Len(lines)]

HealthyRecommendation == "No anomalies detected. System appears healthy."
ReviewRecommendation == "Review detected anomalies and take appropriate action."

\* the value _generate_recommendations returns for an outcome of the call
ParseRecommendations(outcome) ==
  IF outcome.ok /\ BulletLines(SplitLines(outcome.content, <<>>)) # <<>>
  THEN BulletLines(SplitLines(outcome.content, <<>>))
  ELSE <<Text(ReviewRecommendation)>>

\* Counter(anomaly.severity for anomaly in anomalies)
SeverityCounts(anomalies) ==
  [sev \in {anomalies[i].severity : i \in 1..Len(anomalies)} |->
     Cardinality({i \in 1..Len(anomalies) : anomalies[i].severity = sev})]


\* a lookup that counts an absent level as one
CountOfOrOne(counts, level) ==
  IF level \in DOMAIN counts THEN counts[level] ELSE 1

\* severity_counts.get(level, 0)
CountOf(counts, level) == IF level \in DOMAIN counts THEN counts[level] ELSE 0

\* _calculate_metrics(data, anomalies)
_calculate_metrics(d, anomalies) ==
  [total_entries_analyzed |-> Len(d),
   total_anomalies_detected |-> Len(anomalies),
   anomaly_rate |-> IF Len(d) > 0 THEN Ratio(Len(anomalies), Len(d))
                    ELSE Ratio(0, 1),
   severity_breakdown |-> SeverityCounts(anomalies),
   critical_anomalies |-> CountOf(SeverityCounts(anomalies), "critical"),
   high_anomalies |-> CountOf(SeverityCounts(anomalies), "high"),
   medium_anomalies |-> CountOf(SeverityCounts(anomalies), "medium"),
   low_anomalies |-> CountOf(SeverityCounts(anomalies), "low")]

AnalysisResult(anoms, summ, recs, mets) ==
  [anomalies |-> anoms, summary |-> summ, recommendations |-> recs,
   metrics |-> mets]

NoDataSummary == "No data provided for analysis"

\* _get_anomaly_breakdown(anomalies): the counts by severity and by category
_get_anomaly_breakdown(anomalies) ==
  [severity |-> SeverityCounts(anomalies),
   category |->
     [cat \in {anomalies[i].category : i \in 1..Len(anomalies)} |->
        Cardinality({i \in 1..Len(anomalies) : anomalies[i].category = cat})]]

\* what the user message of each request carries
PatternRequest(d) ==
  [error_patterns |-> _analyze_error_patterns(d),
   sample_entries |-> Len(Prefix(d, 20))]
SemanticRequest(d) == [text_samples |-> Len(Prefix(_extract_text_samples(d), 50))]
SummaryRequest(d, anomalies) ==
  [entries |-> Len(d), anomalies |-> Len(anomalies),
   breakdown |-> _get_anomaly_breakdown(anomalies)]
RecommendationsRequest(anomalies) ==
  [anomalies |-> Len(anomalies),
   breakdown |-> _get_anomaly_breakdown(anomalies)]

\* one generate_response call: its mode, its request and whether it returned
OracleCall(mode, request, outcome) ==
  [mode |-> mode, request |-> request, ok |-> outcome.ok]

\* datetime.utcnow(): the clock does not run backwards
Now == {t \in clock..(clock + 1) : t <= MaxClock}

-----------------------------------------------------------------------------
(* Bounds and input domains *)

Ts_valid == <<"2", "0", "2", "4", "-", "0", "1", "-", "0", "1", "T", "1", "0", ":", "0", "3", ":", "0", "0", "Z">>
Ts_date == <<"2", "0", "2", "4", "-", "0", "2", "-", "2", "9">>
Ts_month13 == <<"2", "0", "2", "4", "-", "1", "3", "-", "0", "1", "T", "1", "0", ":", "0", "3", ":", "0", "0">>
Ts_words == <<"n", "o", "w">>
Ts_later == <<"2", "0", "2", "4", "-", "0", "1", "-", "0", "1", "T", "1", "1", ":", "0", "7", ":", "3", "0", "+", "0", "1", ":", "0", "0">>

TimestampValues ==
  {Absent, PyStr(Ts_valid), PyStr(Ts_date), PyStr(Ts_month13),
   PyStr(Ts_words), PyInt(1704103380), PyNone}

StatusValues ==
  {Absent, PyInt(200), PyInt(404), PyInt(500), PyInt(-1), PyFloat(5000),
   PyStr(<<"4", "0", "4">>), PyStr(<<"5", "0", "3">>), PyStr(<<"o", "k">>),
   PyStr(<<"U+00B2">>), PyStr(<<>>), PyNone, PyBool(TRUE)}

ResponseTimeValues ==
  {Absent, PyFloat(5), PyInt(3), PyStr(<<"1", ".", "5">>), PyStr(<<"x">>),
   PyNone}

MessageValues ==
  {Absent, PyStr(<<>>), PyStr(<<"o", "k">>), PyStr(Str_ERROR),
   PyStr(<<"e", "r", "r", "o", "r">>),
   PyStr(Str_WARN \o <<" ">> \o Str_FATAL),
   PyStr(<<"F", "a", "i", "l", "e", "d">>), PyNone, PyInt(7)}

RequestValues == {Absent, PyStr(<<"G", "E", "T">>), PyStr(Str_ERROR)}

NoEntry ==
  [timestamp |-> Absent, status |-> Absent, response_time |-> Absent,
   message |-> Absent, request |-> Absent, error |-> Absent,
   description |-> Absent]

Entries ==
  [timestamp : TimestampValues, status : StatusValues,
   response_time : ResponseTimeValues, message : MessageValues,
   request : RequestValues, error : {Absent}, description : {Absent}]

Scores == (-MaxAbsScore)..MaxAbsScore

\* a member that the object does not have
Missing == [t |-> "missing", s |-> "", n |-> 0, keys |-> <<>>, items |-> <<>>]

Member(key, x) ==
  IF x = Missing THEN [keys |-> <<>>, items |-> <<>>]
  ELSE [keys |-> <<key>>, items |-> <<x>>]

ElementObject(sev, cat, desc, conf, dat) ==
  JDict(Member("severity", sev).keys \o Member("category", cat).keys
          \o Member("description", desc).keys
          \o Member("confidence", conf).keys \o Member("data", dat).keys,
        Member("severity", sev).items \o Member("category", cat).items
          \o Member("description", desc).items
          \o Member("confidence", conf).items \o Member("data", dat).items)

ElementObjects ==
  {ElementObject(sev, cat, desc, conf, dat) :
     sev \in {Missing, JStr("high"), JStr("severe"), JNull},
     cat \in {Missing, JStr("auth")},
     desc \in {Missing, JStr("brute force")},
     conf \in {Missing, JNum(90), JNum(150), JStr("0.9"), JStr("high")},
     dat \in {Missing, JDict(<<"ip">>, <<JStr("10.0.0.1")>>), JNull}}

Elements == ElementObjects \cup {JNum(500), JStr("high"), JNull}

LeadingElements ==
  {ElementObject(JStr("low"), JStr("auth"), JStr("brute force"), JNum(20),
                 JDict(<<>>, <<>>)),
   JDict(<<>>, <<>>),
   JNum(500)}

Arrays ==
  {<<>>} \cup
  {Append(pre, x) :
     pre \in UNION {[1..m -> LeadingElements] : m \in 0..(MaxArray - 1)},
     x \in Elements}

Documents ==
  {JDict(<<"anomalies">>, <<JList(xs)>>) : xs \in Arrays}
    \cup {JDict(<<"anomalies">>, <<x>>) :
            x \in {JNull, JNum(0), JStr(""), JStr("none"),
                   JDict(<<"severity">>, <<JStr("high")>>)}}
    \cup {JDict(<<>>, <<>>),
          JDict(<<"findings">>, <<JList(<<JDict(<<>>, <<>>)>>)>>),
          JDict(<<"anomalies", "anomalies">>,
                <<JList(<<JDict(<<>>, <<>>)>>), JList(<<>>)>>)}

RawTexts ==
  {pre \o DumpTokens(doc) \o post :
     pre \in {<<>>, <<WordTok>>, <<WordTok, Punct("{")>>},
     doc \in Documents,
     post \in {<<>>, <<WordTok>>, <<Punct("}")>>}}
    \cup {SubSeq(DumpTokens(doc), 1, Len(DumpTokens(doc)) - 1) :
            doc \in Documents}
    \cup {<<>>, <<WordTok>>, <<Punct("{")>>, <<Punct("}")>>,
          <<Punct("}"), WordTok, Punct("{")>>}

NormalEntry ==
  [NoEntry EXCEPT !.timestamp = PyStr(Ts_valid), !.status = PyInt(200),
                  !.response_time = PyFloat(5),
                  !.message = PyStr(<<"o", "k">>)]

\* no text, no timestamp, no error marker
BareEntry == [NoEntry EXCEPT !.status = PyInt(200)]

BaseEntries == {NormalEntry, BareEntry}

OddEntries ==
  {NormalEntry,
   BareEntry,
   [BareEntry EXCEPT !.status = PyStr(<<"U+00B2">>)],
   [NormalEntry EXCEPT !.status = PyInt(500), !.response_time = PyFloat(9000),
                       !.message = PyStr(Str_ERROR)],
   [BareEntry EXCEPT !.message = PyStr(<<"F", "a", "i", "l", "e", "d">>)],
   [BareEntry EXCEPT !.timestamp = PyStr(Ts_month13)],
   [BareEntry EXCEPT !.timestamp = PyStr(Ts_later)],
   [BareEntry EXCEPT !.timestamp = PyStr(Ts_words),
                     !.message = PyStr(Str_ERROR)],
   [BareEntry EXCEPT !.error = PyStr(<<"b", "o", "o", "m">>)]}

\* batches: a run of one entry, closed by any entry
Batches ==
  {<<>>} \cup
  {[i \in 1..n |-> IF i = n THEN last ELSE base] :
     n \in 1..MaxBatch, base \in BaseEntries, last \in OddEntries}


\* a required key that the config dict does not have
KeyMissing == "KeyMissing"

\* validate_config without the loop over the required fields
ValidateSensitivityOnly(cfg) == cfg.sensitivity \in {"low", "medium", "high"}

\* validate_config(): TRUE when it returns, FALSE when it raises ValueError
validate_config(cfg) ==
  /\ \A field \in {"llm_provider", "sensitivity"} : cfg[field] # KeyMissing
  /\ cfg.sensitivity \in {"low", "medium", "high"}

\* the dicts handed to the constructor
ConfigInputs ==
  [llm_provider : {KeyMissing, "openai", "unknown", ""},
   sensitivity : {KeyMissing, "low", "medium", "high", "LOW", "extreme", ""}]

Configs == [llm_provider : {"openai"}, sensitivity : {"low", "medium", "high"}]

NoConfig == [llm_provider |-> "", sensitivity |-> ""]

NoResult == AnalysisResult(<<>>, Text(""), <<>>, EmptyDict)

-----------------------------------------------------------------------------
(* The other components while they do not run *)

\* no pair of analyze calls
NoInvocations == <<>>

\* no call made on the manager yet
NoCall == [op |-> "", name |-> "", ok |-> TRUE, before |-> NewLLMManager]

\* a row of analysis_jobs that is not there; error_message "" and result
\* -1 stand for NULL
NoJob ==
  [exists |-> FALSE, status |-> "", error_message |-> "", result |-> -1,
   completed_at |-> FALSE]

\* no job row, no data source row, no anomaly rows
NoDb == [job |-> NoJob, data_source |-> [exists |-> FALSE, type |-> ""],
         anomalies |-> 0]

\* run_analysis_job is not running
NoTask ==
  [module |-> "", pc |-> "idle", job |-> FALSE, was_running |-> FALSE,
   analyzed |-> FALSE, anomalies |-> 0, exception |-> "", value |-> ""]

\* _fetch_all_data is not running
NoApi == [pc |-> "idle"]

ExtIdle ==
  /\ invocations = NoInvocations
  /\ manager = NewLLMManager
  /\ first_added = None
  /\ last_call = NoCall
  /\ db = NoDb
  /\ task = NoTask
  /\ api = NoApi

-----------------------------------------------------------------------------
(* Function-level runs: one function called on one input *)

NoVector == [ok |-> TRUE, v |-> <<>>]

\* Anomaly objects as the three detection paths build them
AnomalySamples ==
  {Anomaly("critical", "statistical_outlier",
           Text("Statistical anomaly detected"), 60,
           JDict(<<"row_index", "anomaly_score">>, <<JNum(300), JNum(-60)>>),
           0),
   Anomaly("low", "llm_detected", Text("LLM detected anomaly"), 50,
           JDict(<<>>, <<>>), 1),
   Anomaly("medium", "auth", Text("brute force"), 90,
           JDict(<<"ip">>, <<JStr("10.0.0.1")>>), 0),
   Anomaly("", "", Text(""), 0,
           JDict(<<"nested">>, <<JList(<<JNull, JDict(<<>>, <<>>)>>)>>), 2)}

AnomalyLists == UNION {[1..n -> AnomalySamples] : n \in 0..MaxArray}

\* managers: no provider, the configured provider, another provider only
Managers ==
  {NewLLMManager, add_provider(NewLLMManager, "openai"),
   add_provider(NewLLMManager, "claude")}

SmallBatches == {[i \in 1..n |-> NormalEntry] : n \in 1..3}

\* the state of analyze while no analyze call runs
AnalyzeIdle ==
  /\ pc = "idle"
  /\ fitted = FALSE
  /\ statistical_anomalies = <<>>
  /\ pattern_anomalies = <<>>
  /\ semantic_anomalies = <<>>
  /\ summary = Text("")
  /\ recommendations = <<>>
  /\ result = NoResult
  /\ oracle_calls = <<>>
  /\ anomaly_scores = <<>>
  /\ time_groups = <<>>
  /\ frequency_anomalies = <<>>

\* no agent, no manager with a provider, no batch, no anomalies
AgentIdle ==
  /\ config = NoConfig
  /\ data = <<>>
  /\ llm_manager = NewLLMManager
  /\ all_anomalies = <<>>

FnInit ==
  /\ returned = FALSE
  /\ feature_vector = NoVector
  /\ severity = ""
  /\ parsed = <<>>
  /\ AnalyzeIdle
  /\ ExtIdle
  /\ \/ fn = "_extract_features" /\ entry \in Entries
        /\ score = 0 /\ response = <<>> /\ clock = 0 /\ AgentIdle
     \/ fn = "_calculate_severity" /\ score \in Scores
        /\ entry = NoEntry /\ response = <<>> /\ clock = 0 /\ AgentIdle
     \/ fn = "_parse_llm_response" /\ response \in RawTexts
        /\ entry = NoEntry /\ score = 0 /\ clock = 0 /\ AgentIdle
     \/ fn = "__init__" /\ config \in ConfigInputs
        /\ data = <<>> /\ llm_manager = NewLLMManager /\ all_anomalies = <<>>
        /\ entry = NoEntry /\ score = 0 /\ response = <<>> /\ clock = 0
     \/ fn = "_generate_summary" /\ config \in Configs
        /\ data \in SmallBatches /\ llm_manager \in Managers
        /\ all_anomalies \in AnomalyLists
        /\ entry = NoEntry /\ score = 0 /\ response = <<>> /\ clock = 0
     \/ fn = "_generate_recommendations" /\ config \in Configs
        /\ data = <<>> /\ llm_manager \in Managers
        /\ all_anomalies \in AnomalyLists
        /\ entry = NoEntry /\ score = 0 /\ response = <<>> /\ clock = 0
     \/ fn = "round_trip" /\ all_anomalies \in AnomalyLists
        /\ config = NoConfig /\ data = <<>> /\ llm_manager = NewLLMManager
        /\ entry = NoEntry /\ score = 0 /\ response = <<>>
        /\ clock \in 0..MaxClock

\* features = self._extract_features([entry])
ExtractFeaturesCall ==
  /\ fn = "_extract_features" /\ ~returned
  /\ returned' = TRUE
  /\ feature_vector' = ExtractEntry(entry)
  /\ UNCHANGED <<fn, entry, score, severity, response, parsed, clock>>
  /\ UNCHANGED analyzeVars
  /\ UNCHANGED extVars

\* severity = self._calculate_severity(score)
CalculateSeverityCall ==
  /\ fn = "_calculate_severity" /\ ~returned
  /\ returned' = TRUE
  /\ severity' = _calculate_severity(score)
  /\ UNCHANGED <<fn, entry, feature_vector, score, response, parsed, clock>>
  /\ UNCHANGED analyzeVars
  /\ UNCHANGED extVars

\* anomalies = self._parse_llm_response(response)
ParseResponseCall ==
  /\ fn = "_parse_llm_response" /\ ~returned
  /\ returned' = TRUE
  /\ parsed' = _parse_llm_response(response, clock)
  /\ UNCHANGED <<fn, entry, feature_vector, score, severity, response, clock>>
  /\ UNCHANGED analyzeVars
  /\ UNCHANGED extVars

\* a parser that keeps its list from one call to the next
ParseResponseAccumulating ==
  /\ fn = "_parse_llm_response" /\ returned
  /\ clock' \in Now
  /\ parsed' = parsed \o _parse_llm_response(response, clock')
  /\ UNCHANGED <<fn, returned, entry, feature_vector, score, severity,
                 response>>
  /\ UNCHANGED analyzeVars
  /\ UNCHANGED extVars

\* self._parse_llm_response(response) once more, on the same text, at a
\* later reading of the clock
ParseResponseAgain ==
  /\ fn = "_parse_llm_response" /\ returned
  /\ clock' \in Now
  /\ parsed' = _parse_llm_response(response, clock')
  /\ UNCHANGED <<fn, returned, entry, feature_vector, score, severity,
                 response>>
  /\ UNCHANGED analyzeVars
  /\ UNCHANGED extVars

\* AnomalyDetectorAgent(config): BaseAgent.__init__ stores the config and
\* calls validate_config
Construct ==
  /\ fn = "__init__" /\ ~returned
  /\ returned' = TRUE
  /\ pc' = IF validate_config(config) THEN "constructed" ELSE "raised"
  /\ UNCHANGED <<fn, entry, feature_vector, score, severity, response,
                 parsed, clock, config, data, llm_manager, fitted,
                 statistical_anomalies, pattern_anomalies, semantic_anomalies,
                 all_anomalies, summary, recommendations, result,
                 oracle_calls>>
  /\ UNCHANGED <<anomaly_scores, time_groups, frequency_anomalies>>
  /\ UNCHANGED extVars

\* summary = await self._generate_summary(data, all_anomalies, llm_manager)
GenerateSummaryCall ==
  /\ fn = "_generate_summary" /\ ~returned
  /\ returned' = TRUE
  /\ \E outcome \in generate_response(llm_manager, config.llm_provider) :
       /\ oracle_calls' =
            Append(oracle_calls,
                   OracleCall("summary", SummaryRequest(data, all_anomalies),
                              outcome))
       /\ response' = outcome.content
       /\ summary' = _generate_summary(data, all_anomalies, outcome)
  /\ UNCHANGED <<fn, entry, feature_vector, score, severity, parsed, clock,
                 config, data, pc, llm_manager, fitted, statistical_anomalies,
                 pattern_anomalies, semantic_anomalies, all_anomalies,
                 recommendations, result>>
  /\ UNCHANGED <<anomaly_scores, time_groups, frequency_anomalies>>
  /\ UNCHANGED extVars

\* recommendations = await self._generate_recommendations(all_anomalies,
\* llm_manager)
GenerateRecommendationsCall ==
  /\ fn = "_generate_recommendations" /\ ~returned
  /\ returned' = TRUE
  /\ IF Len(all_anomalies) = 0
     THEN /\ recommendations' = <<Text(HealthyRecommendation)>>
          /\ UNCHANGED <<oracle_calls, response>>
     ELSE \E outcome \in generate_response(llm_manager, config.llm_provider) :
            /\ oracle_calls' =
                 Append(oracle_calls,
                        OracleCall("recommendations",
                                   RecommendationsRequest(all_anomalies),
                                   outcome))
            /\ response' = outcome.content
            /\ recommendations' = ParseRecommendations(outcome)
  /\ UNCHANGED <<fn, entry, feature_vector, score, severity, parsed, clock,
                 config, data, pc, llm_manager, fitted, statistical_anomalies,
                 pattern_anomalies, semantic_anomalies, all_anomalies,
                 summary, result>>
  /\ UNCHANGED <<anomaly_scores, time_groups, frequency_anomalies>>
  /\ UNCHANGED extVars

\* the oracle JSON shape of a list of anomalies:
\* {"anomalies": [{severity, category, description, confidence, data}, ...]}
OracleJsonShape(anomalies) ==
  JDict(<<"anomalies">>,
        <<JList([i \in 1..Len(anomalies) |->
                   JDict(<<"severity", "category", "description",
                           "confidence", "data">>,
                         <<JStr(anomalies[i].severity),
                           JStr(anomalies[i].category),
                           JStr(anomalies[i].description.fmt),
                           JNum(anomalies[i].confidence),
                           anomalies[i].data>>)])>>)

\* the list is written in the oracle JSON shape with json.dumps and the text
\* is handed to self._parse_llm_response
SerializeAndParse ==
  /\ fn = "round_trip" /\ ~returned
  /\ returned' = TRUE
  /\ response' = DumpTokens(OracleJsonShape(all_anomalies))
  /\ \E now \in Now :
       /\ clock' = now
       /\ parsed' = _parse_llm_response(response', now)
  /\ UNCHANGED <<fn, entry, feature_vector, score, severity>>
  /\ UNCHANGED analyzeVars
  /\ UNCHANGED extVars

FnNext ==
  \/ ExtractFeaturesCall
  \/ CalculateSeverityCall
  \/ ParseResponseCall
  \/ ParseResponseAgain
  \/ Construct
  \/ GenerateSummaryCall
  \/ GenerateRecommendationsCall
  \/ SerializeAndParse

SpecFn == FnInit /\ [][FnNext]_vars

-----------------------------------------------------------------------------
(* analyze(data), statement by statement *)

Init ==
  /\ fn = "analyze"
  /\ returned = FALSE
  /\ entry = NoEntry
  /\ feature_vector = NoVector
  /\ score = 0
  /\ severity = ""
  /\ response = <<>>
  /\ parsed = <<>>
  /\ clock = 0
  /\ config \in Configs
  /\ data \in Batches
  /\ pc = "analyze"
  /\ llm_manager = NewLLMManager
  /\ fitted = FALSE
  /\ statistical_anomalies = <<>>
  /\ pattern_anomalies = <<>>
  /\ semantic_anomalies = <<>>
  /\ all_anomalies = <<>>
  /\ summary = Text("")
  /\ recommendations = <<>>
  /\ result = NoResult
  /\ oracle_calls = <<>>
  /\ anomaly_scores = <<>>
  /\ time_groups = <<>>
  /\ frequency_anomalies = <<>>
  /\ ExtIdle

\* analyze without the early return for the empty batch
AnalyzeBeginNoEarlyReturn ==
  /\ pc = "analyze"
  /\ llm_manager' = NewLLMManager
  /\ pc' = "statistical"
  /\ UNCHANGED <<result, returned>>
  /\ UNCHANGED <<fn, entry, feature_vector, score, severity, response,
                 parsed, clock, config, data, fitted, statistical_anomalies,
                 pattern_anomalies, semantic_anomalies, all_anomalies,
                 summary, recommendations, oracle_calls>>
  /\ UNCHANGED <<anomaly_scores, time_groups, frequency_anomalies>>
  /\ UNCHANGED extVars

\* lines 31-40: the empty batch returns at once; otherwise the manager is
\* created
AnalyzeBegin ==
  /\ pc = "analyze"
  /\ IF Len(data) = 0
     THEN /\ result' = AnalysisResult(<<>>, Text(NoDataSummary), <<>>,
                                      EmptyDict)
          /\ pc' = "returned"
          /\ returned' = TRUE
          /\ UNCHANGED llm_manager
     ELSE /\ llm_manager' = NewLLMManager
          /\ pc' = "statistical"
          /\ UNCHANGED <<result, returned>>
  /\ UNCHANGED <<fn, entry, feature_vector, score, severity, response,
                 parsed, clock, config, data, fitted, statistical_anomalies,
                 pattern_anomalies, semantic_anomalies, all_anomalies,
                 summary, recommendations, oracle_calls>>
  /\ UNCHANGED <<anomaly_scores, time_groups, frequency_anomalies>>
  /\ UNCHANGED extVars

\* line 43: _detect_statistical_anomalies(data); an exception of
\* _extract_features leaves analyze
DetectStatistical ==
  /\ pc = "statistical"
  /\ LET features == _extract_features(data)
     IN IF ~features.ok
        THEN /\ pc' = "raised"
             /\ returned' = TRUE
             /\ UNCHANGED <<fitted, statistical_anomalies, clock,
                            anomaly_scores>>
        ELSE IF Len(features.v) < MinSamples
        THEN /\ pc' = "pattern"
             /\ statistical_anomalies' = <<>>
             /\ UNCHANGED <<fitted, returned, clock, anomaly_scores>>
        ELSE \E scores \in IsolationForest(Len(features.v),
                                           _get_contamination_level(config)),
                now \in Now :
               /\ pc' = "pattern"
               /\ fitted' = TRUE
               /\ clock' = now
               /\ anomaly_scores' = scores
               /\ statistical_anomalies' =
                    OutlierAnomalies(features.v, scores, now)
               /\ UNCHANGED returned
  /\ UNCHANGED <<fn, entry, feature_vector, score, severity, response,
                 parsed, config, data, llm_manager, pattern_anomalies,
                 semantic_anomalies, all_anomalies, summary, recommendations,
                 result, oracle_calls>>
  /\ UNCHANGED <<time_groups, frequency_anomalies>>
  /\ UNCHANGED extVars


\* a pattern stage that reports the failure of its oracle call as an anomaly
DetectPatternReportingFailure ==
  /\ pc = "pattern"
  /\ time_groups' = TimeGroups(data)
  /\ frequency_anomalies' = FrequencyStatistics(time_groups')
  /\ \E outcome \in generate_response(llm_manager, config.llm_provider),
        now \in Now :
       /\ oracle_calls' =
            Append(oracle_calls,
                   OracleCall("pattern", PatternRequest(data), outcome))
       /\ clock' = now
       /\ pattern_anomalies' =
            IF outcome.ok
            THEN _parse_llm_response(outcome.content, now)
            ELSE <<Anomaly("low", "pattern_analysis_failed",
                           Text("LLM analysis failed"), 0,
                           JDict(<<>>, <<>>), now)>>
  /\ pc' = "semantic"
  /\ UNCHANGED <<fn, returned, entry, feature_vector, score, severity,
                 response, parsed, config, data, llm_manager, fitted,
                 statistical_anomalies, semantic_anomalies, all_anomalies,
                 summary, recommendations, result>>
  /\ UNCHANGED anomaly_scores
  /\ UNCHANGED extVars

\* line 46: _detect_pattern_anomalies(data, llm_manager), with the call of
\* _analyze_with_llm and its try/except
DetectPattern ==
  /\ pc = "pattern"
  /\ time_groups' = TimeGroups(data)
  /\ frequency_anomalies' = FrequencyStatistics(time_groups')
  /\ LET error_patterns == _analyze_error_patterns(data)
     IN IF DictTruthy(error_patterns) \/ DictTruthy(frequency_anomalies')
        THEN \E outcome \in generate_response(llm_manager,
                                              config.llm_provider),
                now \in Now :
               /\ oracle_calls' =
                    Append(oracle_calls,
                           OracleCall("pattern", PatternRequest(data),
                                      outcome))
               /\ clock' = IF outcome.ok THEN now ELSE clock
               /\ pattern_anomalies' =
                    IF outcome.ok
                    THEN _parse_llm_response(outcome.content, now)
                    ELSE <<>>
        ELSE /\ pattern_anomalies' = <<>>
             /\ UNCHANGED <<oracle_calls, clock>>
  /\ pc' = "semantic"
  /\ UNCHANGED <<fn, returned, entry, feature_vector, score, severity,
                 response, parsed, config, data, llm_manager, fitted,
                 statistical_anomalies, semantic_anomalies, all_anomalies,
                 summary, recommendations, result>>
  /\ UNCHANGED anomaly_scores
  /\ UNCHANGED extVars


\* a semantic stage that asks a second time when the first call fails
DetectSemanticRetrying ==
  /\ pc = "semantic"
  /\ IF _extract_text_samples(data) = <<>>
     THEN /\ semantic_anomalies' = <<>>
          /\ UNCHANGED <<oracle_calls, clock>>
     ELSE \E first \in generate_response(llm_manager, config.llm_provider),
             second \in generate_response(llm_manager, config.llm_provider),
             now \in Now :
            LET outcome == IF first.ok THEN first ELSE second
                call(o) == OracleCall("semantic", SemanticRequest(data), o)
            IN /\ oracle_calls' =
                    IF first.ok THEN Append(oracle_calls, call(first))
                    ELSE oracle_calls \o <<call(first), call(second)>>
               /\ clock' = IF outcome.ok THEN now ELSE clock
               /\ semantic_anomalies' =
                    IF outcome.ok
                    THEN _parse_llm_response(outcome.content, now)
                    ELSE <<>>
  /\ pc' = "summary"
  /\ UNCHANGED <<fn, returned, entry, feature_vector, score, severity,
                 response, parsed, config, data, llm_manager, fitted,
                 statistical_anomalies, pattern_anomalies, all_anomalies,
                 summary, recommendations, result>>
  /\ UNCHANGED <<anomaly_scores, time_groups, frequency_anomalies>>
  /\ UNCHANGED extVars

\* line 49: _detect_semantic_anomalies(data, llm_manager)
DetectSemantic ==
  /\ pc = "semantic"
  /\ IF _extract_text_samples(data) = <<>>
     THEN /\ semantic_anomalies' = <<>>
          /\ UNCHANGED <<oracle_calls, clock>>
     ELSE \E outcome \in generate_response(llm_manager, config.llm_provider),
             now \in Now :
            /\ oracle_calls' =
                 Append(oracle_calls, OracleCall("semantic", SemanticRequest(data),
                                   outcome))
            /\ clock' = IF outcome.ok THEN now ELSE clock
            /\ semantic_anomalies' =
                 IF outcome.ok
                 THEN _parse_llm_response(outcome.content, now)
                 ELSE <<>>
  /\ pc' = "summary"
  /\ UNCHANGED <<fn, returned, entry, feature_vector, score, severity,
                 response, parsed, config, data, llm_manager, fitted,
                 statistical_anomalies, pattern_anomalies, all_anomalies,
                 summary, recommendations, result>>
  /\ UNCHANGED <<anomaly_scores, time_groups, frequency_anomalies>>
  /\ UNCHANGED extVars


\* a summary requested before the three lists are combined
GenerateSummaryBeforeMerge ==
  /\ pc = "summary"
  /\ all_anomalies' = CombineAnomalies(statistical_anomalies,
                                       pattern_anomalies, semantic_anomalies)
  /\ \E outcome \in generate_response(llm_manager, config.llm_provider) :
       /\ oracle_calls' =
            Append(oracle_calls,
                   OracleCall("summary",
                              SummaryRequest(data, all_anomalies),
                              outcome))
       /\ summary' = _generate_summary(data, all_anomalies, outcome)
  /\ pc' = "recommendations"
  /\ UNCHANGED <<fn, returned, entry, feature_vector, score, severity,
                 response, parsed, clock, config, data, llm_manager, fitted,
                 statistical_anomalies, pattern_anomalies, semantic_anomalies,
                 recommendations, result>>
  /\ UNCHANGED <<anomaly_scores, time_groups, frequency_anomalies>>
  /\ UNCHANGED extVars

\* lines 52-55: the anomalies are combined and _generate_summary is called
GenerateSummary ==
  /\ pc = "summary"
  /\ all_anomalies' = CombineAnomalies(statistical_anomalies,
                                       pattern_anomalies, semantic_anomalies)
  /\ \E outcome \in generate_response(llm_manager, config.llm_provider) :
       /\ oracle_calls' =
            Append(oracle_calls,
                   OracleCall("summary",
                              SummaryRequest(data, all_anomalies'),
                              outcome))
       /\ summary' = _generate_summary(data, all_anomalies', outcome)
  /\ pc' = "recommendations"
  /\ UNCHANGED <<fn, returned, entry, feature_vector, score, severity,
                 response, parsed, clock, config, data, llm_manager, fitted,
                 statistical_anomalies, pattern_anomalies, semantic_anomalies,
                 recommendations, result>>
  /\ UNCHANGED <<anomaly_scores, time_groups, frequency_anomalies>>
  /\ UNCHANGED extVars


\* _generate_recommendations without the early return for no anomalies
GenerateRecommendationsAlwaysAsks ==
  /\ pc = "recommendations"
  /\ \E outcome \in generate_response(llm_manager, config.llm_provider) :
       /\ oracle_calls' =
            Append(oracle_calls, OracleCall("recommendations",
                            RecommendationsRequest(all_anomalies), outcome))
       /\ recommendations' = ParseRecommendations(outcome)
  /\ pc' = "metrics"
  /\ UNCHANGED <<fn, returned, entry, feature_vector, score, severity,
                 response, parsed, clock, config, data, llm_manager, fitted,
                 statistical_anomalies, pattern_anomalies, semantic_anomalies,
                 all_anomalies, summary, result>>
  /\ UNCHANGED <<anomaly_scores, time_groups, frequency_anomalies>>
  /\ UNCHANGED extVars

\* line 56: _generate_recommendations(all_anomalies, llm_manager)
GenerateRecommendations ==
  /\ pc = "recommendations"
  /\ IF Len(all_anomalies) = 0
     THEN /\ recommendations' = <<Text(HealthyRecommendation)>>
          /\ UNCHANGED oracle_calls
     ELSE \E outcome \in generate_response(llm_manager, config.llm_provider) :
            /\ oracle_calls' =
                 Append(oracle_calls, OracleCall("recommendations",
                            RecommendationsRequest(all_anomalies), outcome))
            /\ recommendations' = ParseRecommendations(outcome)
  /\ pc' = "metrics"
  /\ UNCHANGED <<fn, returned, entry, feature_vector, score, severity,
                 response, parsed, clock, config, data, llm_manager, fitted,
                 statistical_anomalies, pattern_anomalies, semantic_anomalies,
                 all_anomalies, summary, result>>
  /\ UNCHANGED <<anomaly_scores, time_groups, frequency_anomalies>>
  /\ UNCHANGED extVars

\* lines 59-66: the metrics are computed and the AnalysisResult returned
ReturnResult ==
  /\ pc = "metrics"
  /\ result' = AnalysisResult(all_anomalies, summary, recommendations,
                              _calculate_metrics(data, all_anomalies))
  /\ pc' = "returned"
  /\ returned' = TRUE
  /\ UNCHANGED <<fn, entry, feature_vector, score, severity, response,
                 parsed, clock, config, data, llm_manager, fitted,
                 statistical_anomalies, pattern_anomalies, semantic_anomalies,
                 all_anomalies, summary, recommendations, oracle_calls>>
  /\ UNCHANGED <<anomaly_scores, time_groups, frequency_anomalies>>
  /\ UNCHANGED extVars

Next ==
  \/ AnalyzeBegin
  \/ DetectStatistical
  \/ DetectPattern
  \/ DetectSemantic
  \/ GenerateSummary
  \/ GenerateRecommendations
  \/ ReturnResult

Spec == Init /\ [][Next]_vars

-----------------------------------------------------------------------------
(* Properties *)

Levels == {"low", "medium", "high", "critical"}

PatternCallFailed ==
  \E i \in 1..Len(oracle_calls) :
    oracle_calls[i].mode = "pattern" /\ ~oracle_calls[i].ok

PatternCallMade ==
  \E i \in 1..Len(oracle_calls) : oracle_calls[i].mode = "pattern"

\* C1: for every non-empty batch, whatever the records hold and whatever the
\* oracle does, analyze ends by returning an AnalysisResult, never by raising.
C1_AnalyzeNeverRaises ==
  (Len(data) > 0 /\ returned) => pc = "returned"

\* C2: analyze([]) returns exactly the result with no anomalies, the summary
\* "No data provided for analysis", no recommendations and empty metrics; on
\* that path no detector statement is ever reached, no model is fitted and no
\* oracle call is made.
C2_EmptyBatchShortCircuits ==
  Len(data) = 0 =>
    /\ pc \in {"analyze", "returned"}
    /\ ~fitted
    /\ oracle_calls = <<>>
    /\ pc = "returned" =>
         /\ result.anomalies = <<>>
         /\ result.summary = Text("No data provided for analysis")
         /\ result.recommendations = <<>>
         /\ result.metrics = <<>>

C2_Witness == Len(data) = 0 /\ pc = "returned"

\* C3: when the pattern-interpretation call has failed, analyze does not
\* raise, the pattern and the semantic path contribute no anomaly, and the
\* result it returns holds exactly the statistical anomalies and the summary
\* "Analysis completed: {n} anomalies detected in {m} log entries." with n
\* the number of anomalies and m the number of records.
C3_PatternFailureDegrades ==
  PatternCallFailed =>
    /\ pc # "raised"
    /\ pattern_anomalies = <<>>
    /\ semantic_anomalies = <<>>
    /\ pc = "returned" =>
         /\ result.anomalies = statistical_anomalies
         /\ result.summary =
              Format("Analysis completed: {n} anomalies detected in {m} log entries.",
                     <<Len(statistical_anomalies), Len(data)>>)

C3_Witness ==
  /\ pc = "returned"
  /\ PatternCallFailed
  /\ Len(result.anomalies) = 2
  /\ result.anomalies[1].category = "statistical_outlier"

\* C4: the anomalies of the result are the statistical anomalies, then the
\* pattern anomalies, then the semantic anomalies, each list in its own
\* order and nothing else, so the length is the sum of the three lengths.
C4_AnomaliesAreConcatenation ==
  (pc = "returned" /\ Len(data) > 0) =>
    LET s1 == Len(statistical_anomalies)
        s2 == Len(pattern_anomalies)
        s3 == Len(semantic_anomalies)
    IN /\ Len(result.anomalies) = s1 + s2 + s3
       /\ \A i \in 1..s1 : result.anomalies[i] = statistical_anomalies[i]
       /\ \A i \in 1..s2 : result.anomalies[s1 + i] = pattern_anomalies[i]
       /\ \A i \in 1..s3 :
            result.anomalies[s1 + s2 + i] = semantic_anomalies[i]

C4_Witness ==
  /\ pc = "returned"
  /\ Len(result.anomalies) = 2
  /\ result.anomalies[1].severity = "low"
  /\ result.anomalies[2].severity = "critical"

\* the "anomalies" value of the text between the first "{" and the last "}"
SpanOf(text) == Slice(text, StrFind(text, "{"), StrRFind(text, "}") + 1)

HasSpan(text) ==
  StrFind(text, "{") # -1 /\ StrRFind(text, "}") + 1 > StrFind(text, "{")

\* some part of converting the parsed content fails: the "anomalies" value
\* cannot be iterated, or one of its elements cannot be made an Anomaly
ConversionFails(text) ==
  /\ HasSpan(text)
  /\ JsonLoads(SpanOf(text)).ok
  /\ DictHas(JsonLoads(SpanOf(text)).val, "anomalies")
  /\ LET xs == DictItem(JsonLoads(SpanOf(text)).val, "anomalies")
     IN \/ ~Iterable(xs)
        \/ \E i \in 1..Len(IterItems(xs)) : ~Convertible(IterItems(xs)[i])

\* C5: the response parser returns the empty list whenever the text has no
\* "{"..."}" span, the span is not JSON, the "anomalies" key is missing, or
\* any part of the conversion fails; it never returns a partly built list.
C5_ParserEmptyOnAnyFailure ==
  (fn = "_parse_llm_response" /\ returned) =>
    ((\/ ~HasSpan(response)
      \/ ~JsonLoads(SpanOf(response)).ok
      \/ ~DictHas(JsonLoads(SpanOf(response)).val, "anomalies")
      \/ ConversionFails(response))
       => parsed = <<>>)

\* C6: the pattern-interpretation call is made only when the error count is
\* positive or the frequency summary is not empty.
C6_PatternCallOnlyForEvidence ==
  PatternCallMade =>
    \/ _analyze_error_patterns(data).error_count > 0
    \/ _analyze_frequency_patterns(data) # <<>>

\* C7: for a batch of fewer than 10 records the statistical detector ends
\* with an empty list, without fitting a model and without raising; for a
\* batch of exactly 10 records the model is fitted.
C7_MinimumSampleSize ==
  (pc \notin {"analyze", "statistical"} /\ Len(data) > 0) =>
    /\ Len(data) < 10 =>
         pc # "raised" /\ ~fitted /\ statistical_anomalies = <<>>
    /\ Len(data) = 10 => fitted

\* C8: for every record the feature extractor returns a vector of exactly 12
\* numbers and never raises; the slots of a missing field are 0.
C8_TwelveFeaturesNeverRaises ==
  (fn = "_extract_features" /\ returned) =>
    /\ feature_vector.ok
    /\ Len(feature_vector.v) = 12
    /\ entry.timestamp.k = "absent" =>
         SubSeq(feature_vector.v, 1, 4) = <<0, 0, 0, 0>>
    /\ entry.status.k = "absent" =>
         SubSeq(feature_vector.v, 5, 7) = <<0, 0, 0>>
    /\ entry.response_time.k = "absent" => feature_vector.v[8] = 0

SeverityRank(level) ==
  CASE level = "low" -> 0
    [] level = "medium" -> 1
    [] level = "high" -> 2
    [] level = "critical" -> 3

\* C9: the severity is critical exactly when |score| > 0.5, high exactly
\* when 0.3 < |score| <= 0.5, medium exactly when 0.1 < |score| <= 0.3 and
\* low exactly when |score| <= 0.1; a score of smaller magnitude never gets
\* a more severe level, and the sign of the score does not matter.
C9_SeverityStepFunction ==
  (fn = "_calculate_severity" /\ returned) =>
    LET magnitude == IF score < 0 THEN -score ELSE score
    IN /\ severity = "critical" <=> magnitude > 50
       /\ severity = "high" <=> (30 < magnitude /\ magnitude <= 50)
       /\ severity = "medium" <=> (10 < magnitude /\ magnitude <= 30)
       /\ severity = "low" <=> magnitude <= 10
       /\ severity = _calculate_severity(-score)
       /\ \A other \in Scores :
            (IF other < 0 THEN -other ELSE other) < magnitude =>
              SeverityRank(_calculate_severity(other)) <= SeverityRank(severity)

C9_Witness ==
  fn = "_calculate_severity" /\ returned /\ score = -51 /\ severity = "critical"

\* C10: every Anomaly, whichever detection path created it (the statistical
\* detector, or the response parser of the pattern and semantic paths), has
\* a severity among low, medium, high and critical.
C10_SeverityInDomain ==
  \A a \in Range(parsed) \cup Range(statistical_anomalies)
             \cup Range(pattern_anomalies) \cup Range(semantic_anomalies)
             \cup Range(result.anomalies) :
    a.severity \in Levels

\* C11: every Anomaly, whichever detection path created it, has a confidence
\* between 0.0 and 1.0, both included.
C11_ConfidenceInUnitInterval ==
  \A a \in Range(parsed) \cup Range(statistical_anomalies)
             \cup Range(pattern_anomalies) \cup Range(semantic_anomalies)
             \cup Range(result.anomalies) :
    0 <= a.confidence /\ a.confidence <= 100

RecommendationsCallMade ==
  \E i \in 1..Len(oracle_calls) : oracle_calls[i].mode = "recommendations"

AllPathsEmpty ==
  /\ statistical_anomalies = <<>>
  /\ pattern_anomalies = <<>>
  /\ semantic_anomalies = <<>>

\* C12: when analyze returns for a non-empty batch on which the three
\* detection paths all returned empty lists, the recommendations are the
\* one string "No anomalies detected. System appears healthy.", the metric
\* total_anomalies_detected is 0, and no recommendations call was made.
C12_NoAnomalyScenario ==
  (pc = "returned" /\ Len(data) > 0 /\ AllPathsEmpty) =>
    /\ result.recommendations =
         <<Text("No anomalies detected. System appears healthy.")>>
    /\ result.metrics.total_anomalies_detected = 0
    /\ ~RecommendationsCallMade

C12_Witness ==
  pc = "returned" /\ Len(data) >= MinSamples /\ fitted /\ AllPathsEmpty

NumberOf(anomalies, level) ==
  Cardinality({i \in 1..Len(anomalies) : anomalies[i].severity = level})

\* C15: for a non-empty batch the metrics of the result hold the number of
\* records, the number of anomalies of the result, the ratio of the two, and
\* for each of critical, high, medium and low the number of anomalies of
\* that severity, 0 when there is none.
C15_MetricsMatchResult ==
  (pc = "returned" /\ Len(data) > 0) =>
    /\ result.metrics.total_entries_analyzed = Len(data)
    /\ result.metrics.total_anomalies_detected = Len(result.anomalies)
    /\ result.metrics.anomaly_rate =
         Ratio(Len(result.anomalies), Len(data))
    /\ result.metrics.critical_anomalies =
         NumberOf(result.anomalies, "critical")
    /\ result.metrics.high_anomalies = NumberOf(result.anomalies, "high")
    /\ result.metrics.medium_anomalies = NumberOf(result.anomalies, "medium")
    /\ result.metrics.low_anomalies = NumberOf(result.anomalies, "low")

C15_Witness ==
  /\ pc = "returned"
  /\ Len(result.anomalies) = 2
  /\ result.metrics.critical_anomalies = 1
  /\ result.metrics.low_anomalies = 1
  /\ result.metrics.high_anomalies = 0

LastCall == oracle_calls[Len(oracle_calls)]

\* a line begins with a bullet marker: the dash or the bullet character
BeginsWithMarker(line) == StartsWith(line, Dash) \/ StartsWith(line, Bullet)

\* the lines of the text that begin with a bullet marker, without the
\* marker, in the order of the text
MarkedLines(text) ==
  LET lines == SplitLines(text, <<>>)
      F[i \in 0..Len(lines)] ==
        IF i = 0 THEN <<>>
        ELSE IF BeginsWithMarker(lines[i])
        THEN Append(F[i - 1], Content(SubSeq(lines[i], 2, Len(lines[i]))))
        ELSE F[i - 1]
  IN F[Len(lines)]

\* C13: with at least one anomaly, the recommendations are the lines of the
\* oracle's text that begin with a bullet marker, without the marker and in
\* the order of the text; when the call fails or no line begins with a
\* marker they are the one fallback string; they are never empty.
C13_RecommendationsFromBullets ==
  (fn = "_generate_recommendations" /\ returned /\ Len(all_anomalies) > 0) =>
    /\ recommendations # <<>>
    /\ IF LastCall.ok /\ MarkedLines(response) # <<>>
       THEN recommendations = MarkedLines(response)
       ELSE recommendations =
              <<Text("Review detected anomalies and take appropriate action.")>>

\* C14: when the summary call fails the summary is "Analysis completed: {n}
\* anomalies detected in {m} log entries." with n the length of the merged
\* anomaly list and m the number of records; when it succeeds the summary is
\* the oracle's text, unchanged.
C14_SummaryFallback ==
  (fn = "_generate_summary" /\ returned) =>
    IF LastCall.ok
    THEN summary = Content(response)
    ELSE summary =
           Format("Analysis completed: {n} anomalies detected in {m} log entries.",
                  <<Len(all_anomalies), Len(data)>>)

C14_Witness ==
  /\ fn = "_generate_summary" /\ returned
  /\ ~LastCall.ok
  /\ "openai" \in llm_manager.providers
  /\ Len(all_anomalies) = 2
  /\ Len(data) = 3

\* C16: the constructor raises, and no agent exists, when the config lacks
\* llm_provider or sensitivity or when the sensitivity is not one of low,
\* medium and high; with both keys and such a sensitivity it succeeds.
C16_InvalidConfigFailsConstruction ==
  (fn = "__init__" /\ returned) =>
    /\ pc \in {"constructed", "raised"}
    /\ pc = "constructed" <=>
         /\ config.llm_provider # KeyMissing
         /\ config.sensitivity # KeyMissing
         /\ config.sensitivity \in {"low", "medium", "high"}

C16_Witness ==
  /\ fn = "__init__" /\ returned
  /\ pc = "raised"
  /\ config.llm_provider = KeyMissing
  /\ config.sensitivity = "low"

\* the text holds an object whose "anomalies" member is an array of objects
HasObjectArray(text) ==
  /\ HasSpan(text)
  /\ JsonLoads(SpanOf(text)).ok
  /\ DictHas(JsonLoads(SpanOf(text)).val, "anomalies")
  /\ LET xs == DictItem(JsonLoads(SpanOf(text)).val, "anomalies")
     IN xs.t = "list" /\ \A i \in 1..Len(xs.items) : xs.items[i].t = "dict"

ObjectsOf(text) == DictItem(JsonLoads(SpanOf(text)).val, "anomalies").items

GivenOrDefault(obj, key, default) ==
  IF \E k \in 1..Len(obj.keys) : obj.keys[k] = key
  THEN DictItem(obj, key)
  ELSE default

\* the number a.confidence is the given number, or the number the given
\* text spells
SameNumber(conf, given) ==
  \/ given = JNum(conf)
  \/ given.t = "str" /\ NumericText(given.s) = conf

FieldsAsGiven(a, obj) ==
  /\ JStr(a.severity) = GivenOrDefault(obj, "severity", JStr("medium"))
  /\ JStr(a.category) = GivenOrDefault(obj, "category", JStr("llm_detected"))
  /\ a.description.args = <<>> /\ a.description.content = <<>>
  /\ JStr(a.description.fmt) =
       GivenOrDefault(obj, "description", JStr("LLM detected anomaly"))
  /\ SameNumber(a.confidence, GivenOrDefault(obj, "confidence", JNum(50)))
  /\ a.data = GivenOrDefault(obj, "data", JDict(<<>>, <<>>))

WellTyped(obj) ==
  /\ GivenOrDefault(obj, "severity", JStr("")).t = "str"
  /\ GivenOrDefault(obj, "category", JStr("")).t = "str"
  /\ GivenOrDefault(obj, "description", JStr("")).t = "str"
  /\ GivenOrDefault(obj, "confidence", JNum(0)).t = "num"
  /\ GivenOrDefault(obj, "data", JDict(<<>>, <<>>)).t = "dict"

C18_ParserIsPure ==
  [][(fn = "_parse_llm_response" /\ returned /\ returned')
       => parsed' = parsed]_vars

\* an anomaly list without the detected_at stamps
WithoutTime(anomalies) ==
  [i \in 1..Len(anomalies) |->
     [severity |-> anomalies[i].severity,
      category |-> anomalies[i].category,
      description |-> anomalies[i].description,
      confidence |-> anomalies[i].confidence,
      data |-> anomalies[i].data]]

\* C18 as amended: a second call of the parser on the same text returns a
\* list of the same length and order with the same severity, category,
\* description, confidence and data; only detected_at, the time of the
\* call, may differ.
C18_ParserPureButForTime ==
  [][(fn = "_parse_llm_response" /\ returned /\ returned')
       => WithoutTime(parsed') = WithoutTime(parsed)]_vars

C18_Witness ==
  /\ fn = "_parse_llm_response" /\ returned
  /\ Len(parsed) = 2
  /\ parsed[1].detected_at = 1
  /\ parsed[2].detected_at = 1

\* C19: an Anomaly list written in the oracle JSON shape and parsed back
\* gives a list of the same length and order with the same severity,
\* category, description and confidence, and the same data.
C19_RoundTrip ==
  (fn = "round_trip" /\ returned) =>
    WithoutTime(parsed) = WithoutTime(all_anomalies)

C19_Witness ==
  /\ fn = "round_trip" /\ returned
  /\ Len(all_anomalies) = 2
  /\ Len(parsed) = 2
  /\ parsed[1].severity = ""
  /\ parsed[2].data # JDict(<<>>, <<>>)

MergedList ==
  statistical_anomalies \o pattern_anomalies \o semantic_anomalies

\* C20: a summary or recommendations request is made only once the three
\* detection paths are done and their lists are merged, after every
\* pattern and semantic request; the counts and the breakdown it carries
\* are those of the merged list, and so are the metrics of the result.
C20_RequestsFollowMerge ==
  /\ \A i \in 1..Len(oracle_calls) :
       oracle_calls[i].mode \in {"summary", "recommendations"} =>
         /\ pc \in {"recommendations", "metrics", "returned"}
         /\ all_anomalies = MergedList
         /\ \A j \in (i + 1)..Len(oracle_calls) :
              oracle_calls[j].mode \notin {"pattern", "semantic"}
         /\ oracle_calls[i].request.anomalies = Len(MergedList)
         /\ oracle_calls[i].request.breakdown =
              _get_anomaly_breakdown(MergedList)
         /\ oracle_calls[i].mode = "summary" =>
              oracle_calls[i].request.entries = Len(data)
  /\ (pc = "returned" /\ Len(data) > 0) =>
       /\ result.anomalies = MergedList
       /\ result.metrics = _calculate_metrics(data, MergedList)

C20_Witness ==
  /\ pc = "returned"
  /\ Len(MergedList) = 2
  /\ \E i \in 1..Len(oracle_calls) : oracle_calls[i].mode = "pattern"
  /\ \E i \in 1..Len(oracle_calls) : oracle_calls[i].mode = "semantic"
  /\ \E i \in 1..Len(oracle_calls) : oracle_calls[i].mode = "summary"
  /\ \E i \in 1..Len(oracle_calls) : oracle_calls[i].mode = "recommendations"

-----------------------------------------------------------------------------
(* C21: every oracle call is attempted at most once *)

OracleModes == {"pattern", "semantic", "summary", "recommendations"}

CallsOf(mode) == {i \in 1..Len(oracle_calls) : oracle_calls[i].mode = mode}

\* C21: within one analyze invocation each of the four oracle calls
\* (pattern, semantic, summary, recommendations) is attempted at most once,
\* a call that failed is not followed by another call of its kind, and a
\* batch costs at most four oracle calls.
C21_EachCallAtMostOnce ==
  /\ \A i \in 1..Len(oracle_calls) : oracle_calls[i].mode \in OracleModes
  /\ \A mode \in OracleModes : Cardinality(CallsOf(mode)) <= 1
  /\ \A i \in 1..Len(oracle_calls) :
       ~oracle_calls[i].ok =>
         \A j \in (i + 1)..Len(oracle_calls) :
           oracle_calls[j].mode # oracle_calls[i].mode
  /\ Len(oracle_calls) <= 4

C21_Witness ==
  /\ pc = "returned"
  /\ Len(oracle_calls) = 4
  /\ \A mode \in OracleModes : Cardinality(CallsOf(mode)) = 1
  /\ \A i \in 1..Len(oracle_calls) : ~oracle_calls[i].ok

-----------------------------------------------------------------------------
(* C23: the status sub-vector *)

\* the status as a number when it is a number or a text of decimal
\* digits, and 0 otherwise (floats are kept in tenths)
StatusAsNumber(v) ==
  IF v.k = "int" THEN v.n
  ELSE IF v.k = "float" THEN v.n \div 10
  ELSE IF v.k = "str" /\ Len(v.s) > 0 /\ AllDecimal(v.s)
  THEN DecimalValue(v.s)
  ELSE 0

\* C23: in every feature vector the status sub-vector (s, f4, f5) has s equal
\* to the status as a number whenever the status is present and numeric (a
\* number or a numeric text) and 0 otherwise, f4 = 1 exactly when
\* 400 <= s < 500, f5 = 1 exactly when 500 <= s < 600, and f4 and f5 are
\* never both 1.
C23_StatusSubVector ==
  (fn = "_extract_features" /\ returned /\ feature_vector.ok) =>
    LET s == feature_vector.v[5]
        f4 == feature_vector.v[6]
        f5 == feature_vector.v[7]
    IN /\ s = (IF entry.status.k = "absent" THEN 0
               ELSE StatusAsNumber(entry.status))
       /\ f4 = (IF 400 <= s /\ s < 500 THEN 1 ELSE 0)
       /\ f5 = (IF 500 <= s /\ s < 600 THEN 1 ELSE 0)
       /\ ~(f4 = 1 /\ f5 = 1)

-----------------------------------------------------------------------------
(* C24: the frequency summary *)

\* the records of a batch whose timestamp is present and parses
ParseableRows(d) ==
  {i \in 1..Len(d) :
     d[i].timestamp.k # "absent" /\ ParseTimestamp(d[i].timestamp).ok}

\* the minute of a parsed timestamp, counted on its own clock
LocalMinutes(ts) ==
  ((DaysBeforeYear(ts.year) + DaysBeforeMonth(ts.year, ts.month) + ts.day)
     * 24 + ts.hour) * 60 + ts.minute

\* the five-minute window that holds a parsed timestamp
WindowOf(ts) ==
  [aware |-> ts.aware,
   minutes |-> LocalMinutes(ts) - (LocalMinutes(ts) % 5) - ts.offset]

\* the pattern detector has just returned: its locals are those of this run
PatternStageDone == pc = "semantic"

\* C24: the frequency summary puts every record whose timestamp parses into
\* its five-minute window and into no other, so the window counts add up to
\* the number of such records; min <= mean <= max of the window counts; the
\* summary is empty exactly when no timestamp parses; a record whose
\* timestamp does not parse is still counted by the error summary and has
\* its row of features.
C24_FrequencySummary ==
  PatternStageDone =>
    LET rows == ParseableRows(data)
        window == [i \in rows |-> WindowOf(ParseTimestamp(data[i].timestamp))]
        windows == DOMAIN time_groups
        total == SumOver(time_groups, windows)
    IN /\ windows = {window[i] : i \in rows}
       /\ \A w \in windows :
            time_groups[w] = Cardinality({i \in rows : window[i] = w})
       /\ total = Cardinality(rows)
       /\ (frequency_anomalies = EmptyDict) <=> (rows = {})
       /\ rows # {} =>
            LET mean == frequency_anomalies.mean_frequency
            IN /\ mean.num = total /\ mean.den = Cardinality(windows)
               /\ frequency_anomalies.min_frequency * mean.den <= mean.num
               /\ mean.num <= frequency_anomalies.max_frequency * mean.den
               /\ \A w \in windows :
                    /\ frequency_anomalies.min_frequency <= time_groups[w]
                    /\ time_groups[w] <= frequency_anomalies.max_frequency
       /\ PatternCallMade =>
            LET errors == oracle_calls[1].request.error_patterns
            IN /\ errors.error_count =
                    Cardinality({i \in 1..Len(data) : HasErrorKeyword(data[i])})
               /\ errors.error_rate = Ratio(errors.error_count, Len(data))
       /\ fitted => Len(anomaly_scores) = Len(data)

C24_Witness ==
  /\ pc = "semantic"
  /\ fitted
  /\ DOMAIN time_groups # {}
  /\ SumOver(time_groups, DOMAIN time_groups) = Len(data) - 1
  /\ oracle_calls[1].request.error_patterns.error_count = 1
  /\ \E i \in 1..Len(data) :
       /\ data[i].timestamp.k = "str"
       /\ ~ParseTimestamp(data[i].timestamp).ok
       /\ HasErrorKeyword(data[i])

-----------------------------------------------------------------------------
(* C25: one Anomaly per record labelled anomalous *)

\* the rows the fitted detector labelled anomalous (1-based)
LabelledRows == {i \in 1..Len(anomaly_scores) : anomaly_scores[i] < 0}

\* the 0-based row index an Anomaly of the statistical detector carries
RowIndex(a) == a.data.items[1].n

StatisticalStageDone ==
  pc \in {"pattern", "semantic", "summary", "recommendations", "metrics",
          "returned"}

\* C25: when the detector is fitted, each record it labels anomalous gives
\* exactly one Anomaly, with category "statistical_outlier", confidence
\* |score|, the severity of |score|, and as evidence the row index, the
\* feature vector of the record and the raw score; a record labelled normal
\* gives none; the anomalies come in increasing row-index order, so their
\* row indices are distinct and lie in [0, N).
C25_OneAnomalyPerLabelledRow ==
  StatisticalStageDone =>
    /\ ~fitted => statistical_anomalies = <<>>
    /\ fitted =>
         /\ Len(anomaly_scores) = Len(data)
         /\ Len(statistical_anomalies) = Cardinality(LabelledRows)
         /\ \A k \in 1..Len(statistical_anomalies) :
              LET a == statistical_anomalies[k]
                  row == RowIndex(a)
              IN /\ a.data.keys = <<"row_index", "features", "anomaly_score">>
                 /\ row \in 0..(Len(data) - 1)
                 /\ (row + 1) \in LabelledRows
                 /\ a.category = "statistical_outlier"
                 /\ a.confidence = Abs(anomaly_scores[row + 1])
                 /\ a.confidence > 0
                 /\ a.severity = _calculate_severity(a.confidence)
                 /\ a.data.items[2] =
                      JList([j \in 1..12 |->
                               JNum(ExtractEntry(data[row + 1]).v[j])])
                 /\ a.data.items[3] = JNum(anomaly_scores[row + 1])
         /\ \A k \in 1..(Len(statistical_anomalies) - 1) :
              RowIndex(statistical_anomalies[k]) <
                RowIndex(statistical_anomalies[k + 1])

C25_Witness ==
  /\ pc = "returned"
  /\ fitted
  /\ Len(statistical_anomalies) = 2
  /\ RowIndex(statistical_anomalies[1]) = 0
  /\ RowIndex(statistical_anomalies[2]) = Len(data) - 1
  /\ statistical_anomalies[1].severity # statistical_anomalies[2].severity
  /\ \E i \in 1..Len(anomaly_scores) : anomaly_scores[i] > 0

-----------------------------------------------------------------------------
(* C26: analyze runs on a manager that has no provider *)

\* the statement that builds the manager has run
ManagerBuilt == pc # "analyze" /\ Len(data) > 0

\* C26: analyze always works on an LLMManager it has just built, on which no
\* provider is registered, so every oracle call it makes fails whatever the
\* oracle would have answered: the pattern and the semantic path contribute
\* no anomaly, the summary is the template summary, and the recommendations
\* are one of the two fixed lists.
C26_NoProviderInAnalyze ==
  /\ ManagerBuilt =>
       /\ llm_manager.providers = {}
       /\ llm_manager.default_provider = None
       /\ ~ProviderFound(llm_manager, config.llm_provider)
  /\ \A i \in 1..Len(oracle_calls) : ~oracle_calls[i].ok
  /\ pattern_anomalies = <<>>
  /\ semantic_anomalies = <<>>
  /\ (ManagerBuilt /\ pc \in {"recommendations", "metrics", "returned"}) =>
       summary = Format(SummaryTemplate, <<Len(all_anomalies), Len(data)>>)
  /\ (ManagerBuilt /\ pc \in {"metrics", "returned"}) =>
       recommendations = (IF Len(all_anomalies) = 0
                          THEN <<Text(HealthyRecommendation)>>
                          ELSE <<Text(ReviewRecommendation)>>)
  /\ (pc = "returned" /\ Len(data) > 0) =>
       /\ result.summary = summary
       /\ result.recommendations = recommendations
       /\ result.anomalies = statistical_anomalies

C26_Witness ==
  /\ pc = "returned"
  /\ Len(oracle_calls) = 4
  /\ result.recommendations = <<Text(ReviewRecommendation)>>
  /\ result.summary = Format(SummaryTemplate, <<1, Len(data)>>)
  /\ _extract_text_samples(data) # <<>>

-----------------------------------------------------------------------------
(* LLMManager: add_provider and set_default_provider in any order *)

\* LLMProviderFactory._providers
ProviderTypes == {"openai", "anthropic"}

\* create_provider(provider_type, config): TRUE when it returns a provider,
\* FALSE when it raises ValueError (unknown type, or the provider's
\* validate_config finds no API key in the settings)
create_provider(provider_type, api_key_set) ==
  provider_type \in ProviderTypes /\ api_key_set

\* set_default_provider(name): raises for a name that is not registered
set_default_provider(mgr, name) ==
  IF name \notin mgr.providers
  THEN [ok |-> FALSE, v |-> mgr]
  ELSE [ok |-> TRUE, v |-> [mgr EXCEPT !.default_provider = name]]

\* the names and provider types the calls are made with
ProviderNames == {"openai", "claude", "backup", ""}
ProviderTypeInputs == ProviderTypes \cup {"llama"}

\* no function of the agent is being called
NoFunctionCall ==
  /\ returned = FALSE
  /\ entry = NoEntry
  /\ feature_vector = NoVector
  /\ score = 0
  /\ severity = ""
  /\ response = <<>>
  /\ parsed = <<>>
  /\ clock = 0

MgrInit ==
  /\ fn = "LLMManager"
  /\ NoFunctionCall
  /\ AnalyzeIdle
  /\ AgentIdle
  /\ ExtIdle

\* manager.add_provider(name, provider_type, config)
AddProvider ==
  /\ fn = "LLMManager"
  /\ \E name \in ProviderNames, provider_type \in ProviderTypeInputs,
        api_key_set \in BOOLEAN :
       IF create_provider(provider_type, api_key_set)
       THEN /\ manager' = add_provider(manager, name)
            /\ first_added' = IF first_added = None THEN name
                              ELSE first_added
            /\ last_call' = [op |-> "add_provider", name |-> name,
                             ok |-> TRUE, before |-> manager]
       ELSE /\ last_call' = [op |-> "add_provider", name |-> name,
                             ok |-> FALSE, before |-> manager]
            /\ UNCHANGED <<manager, first_added>>
  /\ UNCHANGED detectorVars
  /\ UNCHANGED <<invocations, db, task, api>>

\* manager.set_default_provider(name)
SetDefaultProvider ==
  /\ fn = "LLMManager"
  /\ \E name \in ProviderNames :
       LET outcome == set_default_provider(manager, name)
       IN /\ manager' = outcome.v
          /\ last_call' = [op |-> "set_default_provider", name |-> name,
                           ok |-> outcome.ok, before |-> manager]
  /\ UNCHANGED first_added
  /\ UNCHANGED detectorVars
  /\ UNCHANGED <<invocations, db, task, api>>

MgrNext ==
  \/ AddProvider
  \/ SetDefaultProvider

SpecMgr == MgrInit /\ [][MgrNext]_vars

\* C27: after any sequence of add_provider and set_default_provider calls,
\* raising ones included, default_provider is None exactly when no provider
\* is registered and otherwise names a registered provider; the first
\* provider added becomes the default and later adds do not change it;
\* set_default_provider with an unregistered name raises and leaves the
\* default as it was.
C27_DefaultProviderRegistered ==
  fn = "LLMManager" =>
    /\ (manager.default_provider = None) <=> (manager.providers = {})
    /\ manager.default_provider # None =>
         manager.default_provider \in manager.providers
    /\ (manager.providers = {}) <=> (first_added = None)
    /\ (last_call.op = "add_provider" /\ last_call.ok) =>
         /\ manager.providers = last_call.before.providers \cup {last_call.name}
         /\ manager.default_provider =
              (IF last_call.before.providers = {} THEN last_call.name
               ELSE last_call.before.default_provider)
         /\ last_call.before.providers = {} => first_added = last_call.name
    /\ (last_call.op = "set_default_provider") =>
         /\ last_call.ok <=> last_call.name \in last_call.before.providers
         /\ manager.providers = last_call.before.providers
         /\ manager.default_provider =
              (IF last_call.ok THEN last_call.name
               ELSE last_call.before.default_provider)
    /\ ~last_call.ok => manager = last_call.before

C27_Witness ==
  /\ fn = "LLMManager"
  /\ Cardinality(manager.providers) = 3
  /\ last_call.op = "set_default_provider"
  /\ ~last_call.ok
  /\ manager.default_provider # first_added
  /\ manager.default_provider \in manager.providers

-----------------------------------------------------------------------------
(* APIConnector._fetch_all_data, one loop iteration per step *)

\* the safety limit on the page number
PageLimit == 1000

\* what one httpx.get gives: a failure (transport error, an error status
\* from raise_for_status, a body that is not JSON), or a JSON body that is
\* a list, an object or a scalar.  items: what the list or the "data" /
\* "results" entry holds (nothing, some items, or a value that is no
\* list); next and has_next: the entry is absent, falsy or truthy
NoResponse ==
  [kind |-> "", items |-> "none", next |-> "absent", has_next |-> "absent"]

ApiResponses ==
  {[NoResponse EXCEPT !.kind = "failed"]}
    \cup {[NoResponse EXCEPT !.kind = "list", !.items = i] :
            i \in {"none", "some"}}
    \cup {[kind |-> "dict", items |-> i, next |-> n, has_next |-> h] :
            i \in {"none", "some", "bad"},
            n \in {"absent", "falsy", "truthy"},
            h \in {"absent", "falsy", "truthy"}}
    \cup {[NoResponse EXCEPT !.kind = "scalar", !.items = "some"]}

\* the function has returned all_data after the break
Stopped(a) == [a EXCEPT !.pc = "break"]

\* the loop body without the test of the pagination indicators
FetchStepNoIndicator(a, r) ==
  LET asked == [a EXCEPT !.requests = a.requests + 1, !.last = r]
  IN IF r.kind = "failed" THEN Stopped(asked)
     ELSE IF r.items = "none" THEN Stopped(asked)
     ELSE IF r.items = "bad" THEN Stopped(asked)
     ELSE LET extended ==
                [asked EXCEPT !.all_data = Append(a.all_data, a.page)]
          IN IF ~a.supports_pagination THEN Stopped(extended)
             ELSE IF a.page + 1 > PageLimit
             THEN Stopped([extended EXCEPT !.page = a.page + 1])
             ELSE [extended EXCEPT !.page = a.page + 1]

\* one pass of the while loop for the response r: the request, the items
\* (one item per page that has some, named by its page), the breaks.  A
\* value that is no list makes extend raise, which the except clause
\* catches like a failed request
FetchStep(a, r) ==
  LET asked == [a EXCEPT !.requests = a.requests + 1, !.last = r]
  IN IF r.kind = "failed" THEN Stopped(asked)
     ELSE IF r.items = "none" THEN Stopped(asked)
     ELSE IF r.items = "bad" THEN Stopped(asked)
     ELSE LET extended ==
                [asked EXCEPT !.all_data = Append(a.all_data, a.page)]
          IN IF ~a.supports_pagination THEN Stopped(extended)
             ELSE IF r.kind = "dict" /\ r.next \in {"absent", "falsy"}
             THEN Stopped(extended)
             ELSE IF r.kind = "dict" /\ r.has_next = "falsy"
             THEN Stopped(extended)
             ELSE IF a.page + 1 > PageLimit
             THEN Stopped([extended EXCEPT !.page = a.page + 1])
             ELSE [extended EXCEPT !.page = a.page + 1]

ApiInit ==
  /\ fn = "_fetch_all_data"
  /\ NoFunctionCall
  /\ AnalyzeIdle
  /\ AgentIdle
  /\ invocations = NoInvocations
  /\ manager = NewLLMManager
  /\ first_added = None
  /\ last_call = NoCall
  /\ db = NoDb
  /\ task = NoTask
  /\ \E paginated \in BOOLEAN :
       api = [pc |-> "start", supports_pagination |-> paginated, page |-> 0,
              all_data |-> <<>>, requests |-> 0, last |-> NoResponse]

\* all_data = []; page = 1
FetchBegin ==
  /\ api.pc = "start"
  /\ api' = [api EXCEPT !.pc = "loop", !.page = 1, !.all_data = <<>>]
  /\ UNCHANGED detectorVars
  /\ UNCHANGED <<invocations, manager, first_added, last_call, db, task>>

\* one pass of the while loop
FetchPage ==
  /\ api.pc = "loop"
  /\ \E r \in ApiResponses : api' = FetchStep(api, r)
  /\ UNCHANGED detectorVars
  /\ UNCHANGED <<invocations, manager, first_added, last_call, db, task>>

\* return all_data
FetchReturn ==
  /\ api.pc = "break"
  /\ api' = [api EXCEPT !.pc = "returned"]
  /\ UNCHANGED detectorVars
  /\ UNCHANGED <<invocations, manager, first_added, last_call, db, task>>

ApiNext ==
  \/ FetchBegin
  \/ FetchPage
  \/ FetchReturn

\* the function runs to its end once called: no step of it waits
SpecApi == ApiInit /\ [][ApiNext]_vars /\ WF_vars(ApiNext)

ApiRunning == fn = "_fetch_all_data" /\ api.pc # "start"

\* a response that tells the client that another page follows
HasNextIndicator(r) ==
  r.kind = "dict" /\ r.next = "truthy" /\ r.has_next # "falsy"

\* the pages 1..n, one item each
PagesUpTo(n) == [i \in 1..n |-> i]

\* the response let the loop go on
GoesOn(r) == r.kind # "failed" /\ r.items = "some"

\* C30 as stated: the fetch is bounded by 1000 requests, and it has stopped
\* after the first empty page, the first failed request or the first
\* response without a next-page indicator; one request without pagination;
\* a failed request returns the items of the pages before it.
C30_StopsWithoutIndicator ==
  ApiRunning =>
    /\ api.requests <= 1000
    /\ (api.pc = "loop" /\ api.requests > 0) =>
         /\ GoesOn(api.last)
         /\ HasNextIndicator(api.last)
    /\ (~api.supports_pagination /\ api.pc # "loop") => api.requests = 1
    /\ (api.pc # "loop" /\ api.last.kind = "failed") =>
         api.all_data = PagesUpTo(api.requests - 1)

\* the safety properties of the amended C30
FetchBounded ==
  ApiRunning =>
    /\ api.requests <= 1000
    /\ api.pc = "loop" =>
         /\ api.page = api.requests + 1
         /\ api.page <= 1000
         /\ api.all_data = PagesUpTo(api.requests)
    /\ (api.pc = "loop" /\ api.requests > 0) =>
         /\ api.supports_pagination
         /\ GoesOn(api.last)
         /\ api.last.kind = "dict" => HasNextIndicator(api.last)
    /\ api.pc # "loop" =>
         /\ api.requests >= 1
         /\ api.all_data = PagesUpTo(IF GoesOn(api.last) THEN api.requests
                                     ELSE api.requests - 1)
         /\ \/ ~GoesOn(api.last)
            \/ ~api.supports_pagination
            \/ api.last.kind = "dict" /\ ~HasNextIndicator(api.last)
            \/ api.requests = 1000
    /\ (~api.supports_pagination /\ api.pc # "loop") => api.requests = 1

\* C30 (amended): _fetch_all_data terminates for every sequence of server
\* responses: it issues at most 1000 page requests, stops at the first empty
\* page, the first failed request or the first object response without a
\* next-page indicator (a response that is a bare list or a scalar carries
\* no indicator and does not stop the paging), issues exactly one request
\* when pagination is not supported, and on a failed request returns the
\* items of all pages fetched before the failure instead of raising.
C30_FetchTerminates == []FetchBounded /\ <>(api.pc = "returned")

C30_Witness ==
  /\ api.pc = "returned"
  /\ api.supports_pagination
  /\ api.requests = 1000
  /\ api.last.kind = "list"
  /\ Len(api.all_data) = 1000

-----------------------------------------------------------------------------
(* run_analysis_job: the background task of main.py and the Celery task of
   worker.py, statement by statement *)

MaxJobAnomalies == 2

\* the names a module binds by its imports
ImportedNames(module) ==
  IF module = "main"
  THEN {"DataSource", "AnalysisJob", "Anomaly", "DataConnectorFactory",
        "AnomalyDetectorAgent"}
  ELSE {"SessionLocal", "DataConnectorFactory", "AnomalyDetectorAgent"}

\* DataConnectorFactory._connectors
ConnectorTypes == {"log", "database", "api"}

\* the keyword arguments the declarative constructor of the Anomaly row
\* accepts: its mapped columns
AnomalyColumns ==
  {"id", "job_id", "severity", "category", "description", "data",
   "detected_at", "resolved"}

\* the keyword arguments run_analysis_job passes to Anomaly(...)
AnomalyKeywords ==
  {"job_id", "severity", "category", "description", "data", "confidence"}

\* an exception was raised inside the try block: control is in the handler
Except(t, e) == [t EXCEPT !.pc = "handler", !.exception = e]

\* the function returns: None in main.py, a dict with this status in
\* worker.py
Return(t, status) ==
  [t EXCEPT !.pc = "returned",
            !.value = IF t.module = "worker" THEN status ELSE "None"]

JobInit ==
  /\ fn = "run_analysis_job"
  /\ NoFunctionCall
  /\ AnalyzeIdle
  /\ AgentIdle
  /\ invocations = NoInvocations
  /\ manager = NewLLMManager
  /\ first_added = None
  /\ last_call = NoCall
  /\ api = NoApi
  /\ \E module \in {"main", "worker"} :
       task = [NoTask EXCEPT !.module = module, !.pc = "get_job"]
  /\ \E job_exists \in BOOLEAN, source_exists \in BOOLEAN,
        type \in ConnectorTypes \cup {"ftp"} :
       db = [job |-> IF job_exists
                     THEN [NoJob EXCEPT !.exists = TRUE, !.status = "pending"]
                     ELSE NoJob,
             data_source |-> [exists |-> source_exists,
                              type |-> IF source_exists THEN type ELSE ""],
             anomalies |-> 0]

\* job = db.query(AnalysisJob)...first(); if not job: return.  The name
\* AnalysisJob must be bound in the module, and the query reaches the
\* database or fails
GetJob ==
  /\ task.pc = "get_job"
  /\ IF "AnalysisJob" \notin ImportedNames(task.module)
     THEN task' = Except(task, "NameError")
     ELSE \E reachable \in BOOLEAN :
            IF ~reachable THEN task' = Except(task, "OperationalError")
            ELSE IF ~db.job.exists
            THEN task' = Return([task EXCEPT !.job = TRUE], "failed")
            ELSE task' = [task EXCEPT !.job = TRUE, !.pc = "set_running"]
  /\ UNCHANGED db
  /\ UNCHANGED detectorVars
  /\ UNCHANGED <<invocations, manager, first_added, last_call, api>>

\* job.status = "running"; db.commit()
SetRunning ==
  /\ task.pc = "set_running"
  /\ db' = [db EXCEPT !.job.status = "running"]
  /\ task' = [task EXCEPT !.pc = "get_data_source", !.was_running = TRUE]
  /\ UNCHANGED detectorVars
  /\ UNCHANGED <<invocations, manager, first_added, last_call, api>>

\* data_source = db.query(DataSource)...first(), and the branch for a
\* missing data source
GetDataSource ==
  /\ task.pc = "get_data_source"
  /\ IF "DataSource" \notin ImportedNames(task.module)
     THEN /\ task' = Except(task, "NameError")
          /\ UNCHANGED db
     ELSE IF ~db.data_source.exists
     THEN /\ db' = [db EXCEPT !.job.status = "failed",
                              !.job.error_message = "Data source not found"]
          /\ task' = Return(task, "failed")
     ELSE /\ task' = [task EXCEPT !.pc = "fetch"]
          /\ UNCHANGED db
  /\ UNCHANGED detectorVars
  /\ UNCHANGED <<invocations, manager, first_added, last_call, api>>

\* create_connector(data_source.type, data_source.config) and
\* list(connector.fetch_data(start_time, end_time)): an unknown type raises
\* ValueError, the connector's validate_config or its fetch may raise
FetchData ==
  /\ task.pc = "fetch"
  /\ IF db.data_source.type \notin ConnectorTypes
     THEN task' = Except(task, "ValueError")
     ELSE \E outcome \in {"fetched", "ValueError", "ConnectorError"} :
            task' = IF outcome = "fetched"
                    THEN [task EXCEPT !.pc = "analyze"]
                    ELSE Except(task, outcome)
  /\ UNCHANGED db
  /\ UNCHANGED detectorVars
  /\ UNCHANGED <<invocations, manager, first_added, last_call, api>>

\* detector = AnomalyDetectorAgent({...}); result = await
\* detector.analyze(data): analyze raises, or returns a result with some
\* number of anomalies
Analyze ==
  /\ task.pc = "analyze"
  /\ \/ task' = Except(task, "ValueError")
     \/ \E n \in 0..MaxJobAnomalies :
          task' = [task EXCEPT !.pc = "save", !.analyzed = TRUE,
                               !.anomalies = n]
  /\ UNCHANGED db
  /\ UNCHANGED detectorVars
  /\ UNCHANGED <<invocations, manager, first_added, last_call, api>>

\* the loop that builds and adds one Anomaly row per anomaly: the
\* constructor raises TypeError for a keyword that is no column
SaveAnomalies ==
  /\ task.pc = "save"
  /\ IF task.anomalies = 0 THEN /\ task' = [task EXCEPT !.pc = "complete"]
                                /\ UNCHANGED db
     ELSE IF "Anomaly" \notin ImportedNames(task.module)
     THEN /\ task' = Except(task, "NameError")
          /\ UNCHANGED db
     ELSE IF ~(AnomalyKeywords \subseteq AnomalyColumns)
     THEN /\ task' = Except(task, "TypeError")
          /\ UNCHANGED db
     ELSE /\ db' = [db EXCEPT !.anomalies = task.anomalies]
          /\ task' = [task EXCEPT !.pc = "complete"]
  /\ UNCHANGED detectorVars
  /\ UNCHANGED <<invocations, manager, first_added, last_call, api>>

\* job.status = "completed"; job.result = {...}; job.completed_at = ...;
\* db.commit(); return
Complete ==
  /\ task.pc = "complete"
  /\ db' = [db EXCEPT !.job.status = "completed",
                      !.job.result = task.anomalies,
                      !.job.completed_at = TRUE]
  /\ task' = Return(task, "completed")
  /\ UNCHANGED detectorVars
  /\ UNCHANGED <<invocations, manager, first_added, last_call, api>>

\* except Exception as e: job.status = "failed"; job.error_message =
\* str(e); db.commit(); return.  The local name job is bound only once the
\* first query has returned
Handler ==
  /\ task.pc = "handler"
  /\ IF ~task.job
     THEN /\ task' = [task EXCEPT !.pc = "raised",
                                  !.exception = "UnboundLocalError"]
          /\ UNCHANGED db
     ELSE /\ db' = [db EXCEPT !.job.status = "failed",
                              !.job.error_message = task.exception]
          /\ task' = Return(task, "failed")
  /\ UNCHANGED detectorVars
  /\ UNCHANGED <<invocations, manager, first_added, last_call, api>>

JobNext ==
  \/ GetJob
  \/ SetRunning
  \/ GetDataSource
  \/ FetchData
  \/ Analyze
  \/ SaveAnomalies
  \/ Complete
  \/ Handler

SpecJob == JobInit /\ [][JobNext]_vars

\* the run of run_analysis_job has ended, by a return or by an exception
JobRunEnded == fn = "run_analysis_job" /\ task.pc \in {"returned", "raised"}

\* C28: for a job that exists, every run of run_analysis_job first sets the
\* status to "running" and ends with the status "completed" (result and
\* completed_at set) or "failed" (error_message set), never "running"; the
\* status is "completed" only if the analysis returned and one anomaly row
\* per anomaly of the result was stored, result.anomalies_count being that
\* number; a job whose data source is missing ends "failed" with the error
\* message "Data source not found" and no analysis is run.
C28_JobEndsCompletedOrFailed ==
  (JobRunEnded /\ db.job.exists) =>
    /\ task.was_running
    /\ db.job.status \in {"completed", "failed"}
    /\ db.job.status = "completed" =>
         /\ db.job.result # -1
         /\ db.job.completed_at
         /\ task.analyzed
         /\ db.anomalies = task.anomalies
         /\ db.job.result = db.anomalies
    /\ db.job.status = "failed" => db.job.error_message # ""
    /\ ~db.data_source.exists =>
         /\ db.job.status = "failed"
         /\ db.job.error_message = "Data source not found"
         /\ ~task.analyzed

\* C29: run_analysis_job never lets an exception reach its caller,
\* whichever step fails, the load of the job record included; the worker
\* task always returns a dict whose status is "completed" or "failed".
C29_NoExceptionPropagates ==
  JobRunEnded =>
    /\ task.pc = "returned"
    /\ task.module = "worker" => task.value \in {"completed", "failed"}

-----------------------------------------------------------------------------
(* Two analyze invocations on one engine instance *)

Invocations == {1, 2}

\* the frame of one analyze call: its argument, its locals, and what the
\* environment hands it (the scores of the forest it fits, the reading of
\* the clock, the outcomes of its oracle calls so far)
NewInvocation(d, draw, now) ==
  [pc |-> "analyze", data |-> d, scores |-> draw, now |-> now,
   outcomes |-> <<>>, llm_manager |-> NewLLMManager,
   statistical_anomalies |-> <<>>, pattern_anomalies |-> <<>>,
   semantic_anomalies |-> <<>>, all_anomalies |-> <<>>,
   summary |-> Text(""), recommendations |-> <<>>, result |-> NoResult]

\* the positions at which analyze is suspended in an oracle call
AwaitPositions ==
  {"pattern_await", "semantic_await", "summary_await",
   "recommendations_await"}

\* the statement of analyze at l.pc, run on the frame l; outcome is the
\* outcome of the oracle call when l is suspended in one
AnalyzeStep(cfg, l, outcome) ==
  CASE l.pc = "analyze" ->
         IF Len(l.data) = 0
         THEN [l EXCEPT !.pc = "returned",
                        !.result = AnalysisResult(<<>>, Text(NoDataSummary),
                                                  <<>>, EmptyDict)]
         ELSE [l EXCEPT !.pc = "statistical", !.llm_manager = NewLLMManager]
    [] l.pc = "statistical" ->
         LET features == _extract_features(l.data)
         IN IF ~features.ok THEN [l EXCEPT !.pc = "raised"]
            ELSE IF Len(features.v) < MinSamples
            THEN [l EXCEPT !.pc = "pattern", !.statistical_anomalies = <<>>]
            ELSE [l EXCEPT !.pc = "pattern",
                           !.statistical_anomalies =
                              OutlierAnomalies(features.v, l.scores, l.now)]
    [] l.pc = "pattern" ->
         IF DictTruthy(_analyze_error_patterns(l.data))
              \/ DictTruthy(_analyze_frequency_patterns(l.data))
         THEN [l EXCEPT !.pc = "pattern_await"]
         ELSE [l EXCEPT !.pc = "semantic", !.pattern_anomalies = <<>>]
    [] l.pc = "pattern_await" ->
         [l EXCEPT !.pc = "semantic",
                   !.outcomes = Append(l.outcomes, outcome),
                   !.pattern_anomalies =
                      IF outcome.ok
                      THEN _parse_llm_response(outcome.content, l.now)
                      ELSE <<>>]
    [] l.pc = "semantic" ->
         IF _extract_text_samples(l.data) = <<>>
         THEN [l EXCEPT !.pc = "summary", !.semantic_anomalies = <<>>]
         ELSE [l EXCEPT !.pc = "semantic_await"]
    [] l.pc = "semantic_await" ->
         [l EXCEPT !.pc = "summary",
                   !.outcomes = Append(l.outcomes, outcome),
                   !.semantic_anomalies =
                      IF outcome.ok
                      THEN _parse_llm_response(outcome.content, l.now)
                      ELSE <<>>]
    [] l.pc = "summary" ->
         [l EXCEPT !.pc = "summary_await",
                   !.all_anomalies =
                      CombineAnomalies(l.statistical_anomalies,
                                       l.pattern_anomalies,
                                       l.semantic_anomalies)]
    [] l.pc = "summary_await" ->
         [l EXCEPT !.pc = "recommendations",
                   !.outcomes = Append(l.outcomes, outcome),
                   !.summary =
                      _generate_summary(l.data, l.all_anomalies, outcome)]
    [] l.pc = "recommendations" ->
         IF Len(l.all_anomalies) = 0
         THEN [l EXCEPT !.pc = "metrics",
                        !.recommendations = <<Text(HealthyRecommendation)>>]
         ELSE [l EXCEPT !.pc = "recommendations_await"]
    [] l.pc = "recommendations_await" ->
         [l EXCEPT !.pc = "metrics",
                   !.outcomes = Append(l.outcomes, outcome),
                   !.recommendations = ParseRecommendations(outcome)]
    [] l.pc = "metrics" ->
         [l EXCEPT !.pc = "returned",
                   !.result =
                      AnalysisResult(l.all_anomalies, l.summary,
                                     l.recommendations,
                                     _calculate_metrics(l.data,
                                                        l.all_anomalies))]
    [] OTHER -> l

\* the frame as invocation i sees it when the detector lists are kept on
\* the engine instance: the lists are those the last writer left
FrameOnInstance(frames, i) ==
  [frames[i] EXCEPT
     !.statistical_anomalies =
        frames[1].statistical_anomalies \o frames[2].statistical_anomalies]

\* the frame of invocation i: every name analyze writes is a local
FrameOf(frames, i) == frames[i]

\* the batches the two invocations are given: none, two records with
\* text, enough records to fit the forest, a record whose status makes
\* _extract_features raise
PairBatches ==
  {<<>>,
   <<NormalEntry, NormalEntry>>,
   [i \in 1..MinSamples |-> NormalEntry],
   <<[BareEntry EXCEPT !.status = PyStr(<<"U+00B2">>)]>>}

\* the scores the fitted forest may give: no outlier, or one outlier row
PairScores(d) ==
  IF Len(d) < MinSamples THEN {<<>>}
  ELSE {[i \in 1..Len(d) |-> IF i = row THEN -60 ELSE 5] :
          row \in {0, 1, Len(d)}}

PairInit ==
  /\ fn = "analyze_pair"
  /\ NoFunctionCall
  /\ AnalyzeIdle
  /\ config \in Configs
  /\ data = <<>>
  /\ llm_manager = NewLLMManager
  /\ all_anomalies = <<>>
  /\ manager = NewLLMManager
  /\ first_added = None
  /\ last_call = NoCall
  /\ db = NoDb
  /\ task = NoTask
  /\ api = NoApi
  /\ \E d1 \in PairBatches, d2 \in PairBatches :
       \E s1 \in PairScores(d1), s2 \in PairScores(d2),
          t1 \in Now, t2 \in Now :
         invocations = <<NewInvocation(d1, s1, t1), NewInvocation(d2, s2, t2)>>

\* invocation i runs its next statement up to the next await
RunToAwait(i) ==
  /\ fn = "analyze_pair"
  /\ invocations[i].pc \notin AwaitPositions \cup {"returned", "raised"}
  /\ invocations' =
       [invocations EXCEPT
          ![i] = AnalyzeStep(config, FrameOf(invocations, i), OracleFailure)]
  /\ UNCHANGED detectorVars
  /\ UNCHANGED <<manager, first_added, last_call, db, task, api>>

\* invocation i is resumed with the outcome of its oracle call
ResumeFromAwait(i) ==
  /\ fn = "analyze_pair"
  /\ invocations[i].pc \in AwaitPositions
  /\ \E outcome \in generate_response(invocations[i].llm_manager,
                                      config.llm_provider) :
       invocations' =
         [invocations EXCEPT
            ![i] = AnalyzeStep(config, FrameOf(invocations, i), outcome)]
  /\ UNCHANGED detectorVars
  /\ UNCHANGED <<manager, first_added, last_call, db, task, api>>

PairNext ==
  \/ \E i \in Invocations : RunToAwait(i)
  \/ \E i \in Invocations : ResumeFromAwait(i)

SpecPair == PairInit /\ [][PairNext]_vars

\* analyze run alone from the frame l to its end, the oracle calls having
\* the outcomes outs
RECURSIVE RunAlone(_, _, _)
RunAlone(cfg, l, outs) ==
  IF l.pc \in {"returned", "raised"} THEN l
  ELSE IF l.pc \in AwaitPositions
  THEN RunAlone(cfg, AnalyzeStep(cfg, l, Head(outs)), Tail(outs))
  ELSE RunAlone(cfg, AnalyzeStep(cfg, l, OracleFailure), outs)

\* what invocation i returns when it is the only one
AloneResult(i) ==
  RunAlone(config,
           NewInvocation(invocations[i].data, invocations[i].scores,
                         invocations[i].now),
           invocations[i].outcomes)

PairEnded(i) ==
  fn = "analyze_pair" /\ invocations[i].pc \in {"returned", "raised"}

InterleavedAsAlone ==
  \A i \in Invocations :
    PairEnded(i) =>
      /\ invocations[i].pc = AloneResult(i).pc
      /\ invocations[i].result = AloneResult(i).result

\* C22: two analyze invocations on the same engine instance, interleaved at
\* their oracle suspension points in any order, each return the result they
\* return when run alone (on the same batch, with the same answers of the
\* forest, the clock and the oracle); analyze leaves the configuration of
\* the engine as it was.
C22_InvocationsAreIndependent ==
  []InterleavedAsAlone /\ [][config' = config]_vars

C22_Witness ==
  /\ PairEnded(1) /\ PairEnded(2)
  /\ invocations[1].data # invocations[2].data
  /\ Len(invocations[1].result.anomalies) = 1
  /\ Len(invocations[2].result.anomalies) = 0
  /\ Len(invocations[2].data) = 2
  /\ Len(invocations[1].outcomes) = 4

====
